---- MODULE Spec2Model ----
(***************************************************************************)
(* A model of maven-artifacts-mcp: the TTL cache (CacheManager), the HTTP  *)
(* client (its retry loop and its proxy decision) and the resolver         *)
(* (validation, cache key, version classification, comparison and          *)
(* selection, the steps of getLatestVersion, alone and interleaved, and    *)
(* the singletons created at start-up).                                    *)
(*                                                                         *)
(* Strings that the code inspects character by character (group and        *)
(* artifact ids, cache keys, versions, NO_PROXY, hostnames) are sequences  *)
(* of one-character strings.  A JSON object is a record; a field that the  *)
(* object lacks is a field that the record lacks.  Clock readings          *)
(* (Date.now()) are in milliseconds.                                       *)
(***************************************************************************)
EXTENDS Integers, Sequences, FiniteSets, TLC

VARIABLES
    now,              \* Date.now(), in ms
    ttlMs,            \* CacheManager.ttlMinutes * 60 * 1000
    cache,            \* CacheManager.cache: key -> CacheEntry
    cleanupInterval,  \* CacheManager.cleanupInterval: TRUE a timer, FALSE null
    nextSweep,        \* earliest clock reading at which the interval timer fires next
    destroyed,        \* history: destroy() has been called
    last,             \* history: the cache operation just performed and what it returned
    lastSet,          \* history: per coordinate, the last set() not yet cleared
    kin,              \* cache key check: the two coordinates drawn
    kout,             \* cache key check: keys, validation and lookup computed
    hpc,              \* HttpClient.request: where the call stands
    hreq,             \* HttpClient.request: its method and url
    retryCount,       \* HttpClient.request: retryCount
    attempts,         \* history: the outcome of every attempt made, in order
    sleeps,           \* history: every backoff delay slept, in order
    hresult,          \* HttpClient.request: what the call returned or threw
    pin,              \* proxy decision: the environment and the target host drawn
    pout,             \* proxy decision: the dispatcher chosen for the request
    vin,              \* a function checked alone (selection, compare, isStable, start-up): its input
    vout,             \* a function checked alone: what it returned or threw
    calls             \* getLatestVersion: per call, where it stands and what it did

cacheVars == <<now, ttlMs, cache, cleanupInterval, nextSweep, destroyed, last, lastSet>>
keyVars == <<kin, kout>>
httpVars == <<hpc, hreq, retryCount, attempts, sleeps, hresult>>
proxyVars == <<pin, pout>>
selectVars == <<vin, vout>>
resolveVars == <<calls>>
vars == <<cacheVars, keyVars, httpVars, proxyVars, selectVars, resolveVars>>

-----------------------------------------------------------------------------
(* Time.  The sweep period is the program's; the clock advances in steps   *)
(* of TimeUnit up to MaxTime.                                              *)

SweepPeriod == 60000
TicksPerSweep == 3
MaxTicks == 5
TimeUnit == SweepPeriod \div TicksPerSweep
MaxTime == MaxTicks * TimeUnit

\* TTLs the cache is constructed with: zero, shorter than the sweep period,
\* longer than the sweep period.
TtlChoices == {0, TimeUnit, SweepPeriod + TimeUnit}

-----------------------------------------------------------------------------
(* Strings and coordinates.                                                *)

\* [a-zA-Z0-9._-], restricted to the characters the model uses.
ValidChars == {"a", "b", "c", "."}
Whitespace == {" "}

\* s.trim().length === 0
IsBlank(s) == \A i \in DOMAIN s : s[i] \in Whitespace

\* /^[a-zA-Z0-9._-]+$/.test(s)
MatchesIdPattern(s) == Len(s) > 0 /\ \A i \in DOMAIN s : s[i] \in ValidChars

\* A validation that tests presence only.
ValidateInputPresenceOnly(groupId, artifactId) ==
    IF Len(groupId) = 0 \/ IsBlank(groupId)
      THEN "groupId is required and must be a non-empty string"
    ELSE IF Len(artifactId) = 0 \/ IsBlank(artifactId)
      THEN "artifactId is required and must be a non-empty string"
    ELSE "ok"

ValidateInput(groupId, artifactId) ==
    IF Len(groupId) = 0 \/ IsBlank(groupId)
      THEN "groupId is required and must be a non-empty string"
    ELSE IF Len(artifactId) = 0 \/ IsBlank(artifactId)
      THEN "artifactId is required and must be a non-empty string"
    ELSE IF ~MatchesIdPattern(groupId)
      THEN "groupId contains invalid characters"
    ELSE IF ~MatchesIdPattern(artifactId)
      THEN "artifactId contains invalid characters"
    ELSE "ok"

\* A cache key built with a separator that the id pattern admits.
GenerateCacheKeyDot(groupId, artifactId) == groupId \o <<".">> \o artifactId

\* `${groupId}:${artifactId}`
GenerateCacheKey(groupId, artifactId) == groupId \o <<":">> \o artifactId

\* The coordinates the cache is exercised with (both pass validateInput).
Coordinates ==
    { << <<"a", ".", "b">>, <<"c">> >>,
      << <<"a">>, <<"b", ".", "c">> >> }

-----------------------------------------------------------------------------
(* Records.                                                                *)

Null == [null |-> TRUE]
NoEntry == [absent |-> TRUE]
NoSet == [unset |-> TRUE]

\* VersionInfo without and with the optional fields.
V1 == [latestVersion |-> "1.0.0", lastUpdated |-> "2023-01-01T00:00:00.000Z",
       repository |-> "Maven Central"]
V2 == [latestVersion |-> "2.0.0", lastUpdated |-> "2023-01-02T00:00:00.000Z",
       repository |-> "Maven Central",
       excludedVersions |-> <<"2.1.0-RC1", "2.1.0-beta">>, totalVersions |-> 15]
VersionInfos == {V1, V2}

-----------------------------------------------------------------------------
(* CacheManager, as functions of the map and the clock.                    *)

EmptyMap == << >>
MapPut(m, k, e) == [j \in DOMAIN m \cup {k} |-> IF j = k THEN e ELSE m[j]]
MapDelete(m, k) == [j \in DOMAIN m \ {k} |-> m[j]]
MapGet(m, k) == IF k \in DOMAIN m THEN m[k] ELSE NoEntry
MapSize(m) == Cardinality(DOMAIN m)

\* An expiry test that reads the entry's creation time where the clock belongs.
IsExpiredStale(entry, t) == entry.timestamp > entry.expiresAt

\* An expiry test that already fires at the expiry instant.
IsExpiredAtExpiry(entry, t) == t >= entry.expiresAt

\* Date.now() > entry.expiresAt
IsExpired(entry, t) == t > entry.expiresAt

\* A sweep that already removes an entry at its expiry instant.
CleanupExpiredEntriesAtExpiry(m, t) ==
    [k \in {j \in DOMAIN m : ~(t >= m[j].expiresAt)} |-> m[k]]

\* for (const [key, entry] of cache) if (now > entry.expiresAt) cache.delete(key)
CleanupExpiredEntries(m, t) ==
    [k \in {j \in DOMAIN m : ~(t > m[j].expiresAt)} |-> m[k]]

\* get() that leaves expiry to the sweep: whatever is in the map is served.
CacheGetValueUnchecked(m, c, t) ==
    LET entry == MapGet(m, GenerateCacheKey(c[1], c[2]))
    IN  IF entry = NoEntry THEN Null ELSE entry.data

\* What get(groupId, artifactId) returns at clock reading t.
CacheGetValue(m, c, t) ==
    LET entry == MapGet(m, GenerateCacheKey(c[1], c[2]))
    IN  IF entry = NoEntry THEN Null
        ELSE IF IsExpired(entry, t) THEN Null
        ELSE entry.data

\* get() that deletes the entry it finds, expired or not.
CacheAfterGetAlwaysDeletes(m, c, t) == MapDelete(m, GenerateCacheKey(c[1], c[2]))

\* get() with sliding expiration: a hit moves the expiry of the entry.
CacheAfterGetSlides(m, c, t) ==
    LET key == GenerateCacheKey(c[1], c[2])
        entry == MapGet(m, key)
    IN  IF entry = NoEntry THEN m
        ELSE IF IsExpired(entry, t) THEN MapDelete(m, key)
        ELSE MapPut(m, key, [entry EXCEPT !.expiresAt = t + SweepPeriod])

\* The map get(groupId, artifactId) leaves: an expired entry is deleted.
CacheAfterGet(m, c, t) ==
    LET key == GenerateCacheKey(c[1], c[2])
        entry == MapGet(m, key)
    IN  IF entry # NoEntry /\ IsExpired(entry, t) THEN MapDelete(m, key) ELSE m

\* set() that adds the TTL in minutes to a clock in milliseconds.
CacheAfterSetMinutes(m, c, data, t, ttl) ==
    MapPut(m, GenerateCacheKey(c[1], c[2]),
           [data |-> data, timestamp |-> t, expiresAt |-> t + ttl \div 60000])

\* set() that keeps the expiry of the entry it replaces.
CacheAfterSetKeepExpiry(m, c, data, t, ttl) ==
    LET key == GenerateCacheKey(c[1], c[2])
        old == MapGet(m, key)
    IN  MapPut(m, key, [data |-> data, timestamp |-> t,
                        expiresAt |-> IF old = NoEntry THEN t + ttl ELSE old.expiresAt])

\* The map set(groupId, artifactId, data) leaves at clock reading t.
CacheAfterSet(m, c, data, t, ttl) ==
    MapPut(m, GenerateCacheKey(c[1], c[2]),
           [data |-> data, timestamp |-> t, expiresAt |-> t + ttl])

\* clear() that removes only what has expired.
CacheAfterClearExpired(m, t) == CleanupExpiredEntries(m, t)

\* The map clear() leaves.
CacheAfterClear(m, t) == EmptyMap

-----------------------------------------------------------------------------
(* The cache as a state machine: one action per operation, the interval    *)
(* timer's callback, and the passing of time.                              *)

NoOp == [op |-> "none"]
KeyOf(c) == GenerateCacheKey(c[1], c[2])
KeyIdle == [idle |-> TRUE]

\* State after `new CacheManager(ttlMinutes)` at clock reading 0.
CacheInit ==
    /\ now = 0
    /\ ttlMs \in TtlChoices
    /\ cache = EmptyMap
    /\ cleanupInterval = TRUE
    /\ nextSweep = SweepPeriod
    /\ destroyed = FALSE
    /\ last = NoOp
    /\ lastSet = [c \in Coordinates |-> NoSet]

Tick ==
    /\ now < MaxTime
    /\ now' = now + TimeUnit
    /\ last' = NoOp
    /\ UNCHANGED <<keyVars, httpVars, proxyVars, selectVars, resolveVars, ttlMs, cache, cleanupInterval, nextSweep, destroyed, lastSet>>

Get(c) ==
    /\ cache' = CacheAfterGet(cache, c, now)
    /\ last' = [op |-> "get", coord |-> c, val |-> CacheGetValue(cache, c, now),
                found |-> MapGet(cache, GenerateCacheKey(c[1], c[2])),
                prev |-> IF last.op = "get" THEN [op |-> "get"] ELSE last]
    /\ UNCHANGED <<keyVars, httpVars, proxyVars, selectVars, resolveVars, now, ttlMs, cleanupInterval, nextSweep, destroyed, lastSet>>

Set(c, data) ==
    /\ cache' = CacheAfterSet(cache, c, data, now, ttlMs)
    /\ last' = [op |-> "set", coord |-> c, val |-> data,
                found |-> MapGet(cache, GenerateCacheKey(c[1], c[2])),
                size0 |-> MapSize(cache)]
    /\ lastSet' = [lastSet EXCEPT ![c] = [data |-> data, at |-> now]]
    /\ UNCHANGED <<keyVars, httpVars, proxyVars, selectVars, resolveVars, now, ttlMs, cleanupInterval, nextSweep, destroyed>>

Clear ==
    /\ cache' = CacheAfterClear(cache, now)
    /\ last' = [op |-> "clear", removed |-> MapSize(cache)]
    /\ lastSet' = [c \in Coordinates |-> NoSet]
    /\ UNCHANGED <<keyVars, httpVars, proxyVars, selectVars, resolveVars, now, ttlMs, cleanupInterval, nextSweep, destroyed>>

\* getStats() that sweeps before it counts.
GetStatsSweeps ==
    /\ cache' = CleanupExpiredEntries(cache, now)
    /\ last' = [op |-> "stats", size |-> MapSize(CleanupExpiredEntries(cache, now))]
    /\ UNCHANGED <<keyVars, httpVars, proxyVars, selectVars, resolveVars, now, ttlMs, cleanupInterval, nextSweep, destroyed, lastSet>>

GetStats ==
    /\ last' = [op |-> "stats", size |-> MapSize(cache)]
    /\ UNCHANGED <<keyVars, httpVars, proxyVars, selectVars, resolveVars, now, ttlMs, cache, cleanupInterval, nextSweep, destroyed, lastSet>>

ForceCleanup ==
    /\ cache' = CleanupExpiredEntries(cache, now)
    /\ last' = [op |-> "forceCleanup"]
    /\ UNCHANGED <<keyVars, httpVars, proxyVars, selectVars, resolveVars, now, ttlMs, cleanupInterval, nextSweep, destroyed, lastSet>>

\* The setInterval callback: due SweepPeriod after the timer was set or last ran.
Sweep ==
    /\ cleanupInterval
    /\ now >= nextSweep
    /\ cache' = CleanupExpiredEntries(cache, now)
    /\ nextSweep' = now + SweepPeriod
    /\ last' = [op |-> "sweep"]
    /\ UNCHANGED <<keyVars, httpVars, proxyVars, selectVars, resolveVars, now, ttlMs, cleanupInterval, destroyed, lastSet>>

\* destroy() that clears the entries and leaves the timer running.
DestroyKeepTimer ==
    /\ cache' = CacheAfterClear(cache, now)
    /\ destroyed' = TRUE
    /\ last' = [op |-> "destroy", removed |-> MapSize(cache)]
    /\ lastSet' = [c \in Coordinates |-> NoSet]
    /\ UNCHANGED <<keyVars, httpVars, proxyVars, selectVars, resolveVars, now, ttlMs, cleanupInterval, nextSweep>>

Destroy ==
    /\ cleanupInterval' = FALSE
    /\ cache' = CacheAfterClear(cache, now)
    /\ destroyed' = TRUE
    /\ last' = [op |-> "destroy", removed |-> MapSize(cache)]
    /\ lastSet' = [c \in Coordinates |-> NoSet]
    /\ UNCHANGED <<keyVars, httpVars, proxyVars, selectVars, resolveVars, now, ttlMs, nextSweep>>

-----------------------------------------------------------------------------
(* The cache key, applied to two coordinates drawn from all short strings. *)

Alphabet == {"a", ".", ":"}
MaxKeyLen == 3

RECURSIVE StringsOfLen(_)
StringsOfLen(n) ==
    IF n = 0 THEN {<< >>}
    ELSE {Append(s, ch) : s \in StringsOfLen(n - 1), ch \in Alphabet}

\* Pairs (groupId, artifactId) of combined length at most MaxKeyLen.
ShortCoordinates ==
    UNION {StringsOfLen(p[1]) \X StringsOfLen(p[2]) :
             p \in {q \in (0..MaxKeyLen) \X (0..MaxKeyLen) : q[1] + q[2] <= MaxKeyLen}}

KeyInit ==
    /\ kin \in [c1 : ShortCoordinates, c2 : ShortCoordinates]
    /\ kout = KeyIdle

\* Both coordinates are validated and keyed; then set(c2, V2); set(c1, V1); get(c2).
ApplyKey ==
    /\ kout = KeyIdle
    /\ kout' = [ok1 |-> ValidateInput(kin.c1[1], kin.c1[2]) = "ok",
                ok2 |-> ValidateInput(kin.c2[1], kin.c2[2]) = "ok",
                key1 |-> GenerateCacheKey(kin.c1[1], kin.c1[2]),
                key2 |-> GenerateCacheKey(kin.c2[1], kin.c2[2]),
                got |-> CacheGetValue(
                            CacheAfterSet(CacheAfterSet(EmptyMap, kin.c2, V2, 0, SweepPeriod),
                                          kin.c1, V1, 0, SweepPeriod),
                            kin.c2, 0)]
    /\ UNCHANGED <<cacheVars, httpVars, proxyVars, selectVars, resolveVars, kin>>

-----------------------------------------------------------------------------
(* HttpClient.request: the retry loop.                                     *)

MaxRetries == 2
BaseDelay == 1000
MaxDelay == 5000

BaseUrl == "https://search.maven.org/solrsearch/select"
Methods == {"GET", "POST"}

\* What a failed attempt throws: code, statusCode ("" when the error has none)
\* and message.
Errors ==
    { [code |-> "UND_ERR_CONNECT_TIMEOUT", statusCode |-> "", message |-> "Connect Timeout Error"],
      [code |-> "UND_ERR_HEADERS_TIMEOUT", statusCode |-> "", message |-> "Headers Timeout Error"],
      [code |-> "UND_ERR_BODY_TIMEOUT", statusCode |-> "", message |-> "Body Timeout Error"],
      [code |-> "ENOTFOUND", statusCode |-> "", message |-> "getaddrinfo ENOTFOUND"],
      [code |-> "ECONNREFUSED", statusCode |-> "", message |-> "connect ECONNREFUSED"],
      [code |-> "ECONNRESET", statusCode |-> "", message |-> "read ECONNRESET"],
      [code |-> "UND_ERR_RESPONSE_STATUS_CODE", statusCode |-> "503",
       message |-> "Response status code 503"],
      [code |-> "", statusCode |-> "", message |-> "Unexpected token < in JSON at position 0"],
      [code |-> "UND_ERR_SOCKET", statusCode |-> "", message |-> "other side closed"] }

\* What a successful attempt yields.
Responses ==
    { [status |-> "200", data |-> "docs"],
      [status |-> "200", data |-> "empty"] }

NoResult == [none |-> TRUE]

Min(a, b) == IF a < b THEN a ELSE b

\* A backoff whose exponent starts at retryCount instead of retryCount - 1.
RetryDelayFromCount(n) == Min(BaseDelay * 2 ^ n, MaxDelay)

\* Math.min(1000 * Math.pow(2, retryCount - 1), 5000)
RetryDelay(n) == Min(BaseDelay * 2 ^ (n - 1), MaxDelay)

\* The message of the error request() throws, as its parts in order.
CreateHttpError(error, url, method) ==
    IF error.code = "UND_ERR_CONNECT_TIMEOUT" THEN <<"Connection timeout for", method, url>>
    ELSE IF error.code = "UND_ERR_HEADERS_TIMEOUT" THEN <<"Headers timeout for", method, url>>
    ELSE IF error.code = "UND_ERR_BODY_TIMEOUT" THEN <<"Body timeout for", method, url>>
    ELSE IF error.code = "ENOTFOUND" THEN <<"DNS resolution failed for", url>>
    ELSE IF error.code = "ECONNREFUSED" THEN <<"Connection refused for", url>>
    ELSE IF error.code = "ECONNRESET" THEN <<"Connection reset for", url>>
    ELSE IF error.statusCode # ""
      THEN <<"HTTP", error.statusCode, "for", method, url, ":", error.message>>
    ELSE <<"HTTP request failed for", method, url, ":", error.message>>

HttpInit ==
    /\ hpc = "idle"
    /\ hreq \in [method : Methods, url : {BaseUrl}]
    /\ retryCount = 0
    /\ attempts = << >>
    /\ sleeps = << >>
    /\ hresult = NoResult

\* request() is called: retryCount = 0, the loop is entered, attempt 1 is issued.
HttpRequest ==
    /\ hpc = "idle"
    /\ hpc' = IF 0 <= MaxRetries THEN "requesting" ELSE "thrown"
    /\ hresult' = IF 0 <= MaxRetries THEN NoResult ELSE <<"Unexpected end of retry loop">>
    /\ retryCount' = 0
    /\ UNCHANGED <<cacheVars, keyVars, proxyVars, selectVars, resolveVars, hreq, attempts, sleeps>>

\* The awaited request resolves and its body is decoded: request() returns.
AttemptSucceeds(resp) ==
    /\ hpc = "requesting"
    /\ hpc' = "returned"
    /\ attempts' = Append(attempts, resp)
    /\ hresult' = resp
    /\ UNCHANGED <<cacheVars, keyVars, proxyVars, selectVars, resolveVars, hreq, retryCount, sleeps>>

\* A catch block that gives up at once on a DNS failure.
AttemptFailsFastOnDns(error) ==
    /\ hpc = "requesting"
    /\ attempts' = Append(attempts, error)
    /\ retryCount' = retryCount + 1
    /\ IF retryCount + 1 > MaxRetries \/ error.code = "ENOTFOUND"
         THEN /\ hpc' = "thrown"
              /\ hresult' = CreateHttpError(error, hreq.url, hreq.method)
              /\ sleeps' = sleeps
         ELSE /\ hpc' = "sleeping"
              /\ hresult' = hresult
              /\ sleeps' = Append(sleeps, RetryDelay(retryCount + 1))
    /\ UNCHANGED <<cacheVars, keyVars, proxyVars, selectVars, resolveVars, hreq>>

\* A catch block that classifies the failure of the first attempt, whichever
\* attempt was the last.
AttemptFailsThrowsFirst(error) ==
    /\ hpc = "requesting"
    /\ attempts' = Append(attempts, error)
    /\ retryCount' = retryCount + 1
    /\ IF retryCount + 1 > MaxRetries
         THEN /\ hpc' = "thrown"
              /\ hresult' = CreateHttpError(Append(attempts, error)[1], hreq.url, hreq.method)
              /\ sleeps' = sleeps
         ELSE /\ hpc' = "sleeping"
              /\ hresult' = hresult
              /\ sleeps' = Append(sleeps, RetryDelay(retryCount + 1))
    /\ UNCHANGED <<cacheVars, keyVars, proxyVars, selectVars, resolveVars, hreq>>

\* The attempt throws (transport failure, status error, undecodable body): the
\* catch block counts it, and either throws the classified error or sleeps.
AttemptFails(error) ==
    /\ hpc = "requesting"
    /\ attempts' = Append(attempts, error)
    /\ retryCount' = retryCount + 1
    /\ IF retryCount + 1 > MaxRetries
         THEN /\ hpc' = "thrown"
              /\ hresult' = CreateHttpError(error, hreq.url, hreq.method)
              /\ sleeps' = sleeps
         ELSE /\ hpc' = "sleeping"
              /\ hresult' = hresult
              /\ sleeps' = Append(sleeps, RetryDelay(retryCount + 1))
    /\ UNCHANGED <<cacheVars, keyVars, proxyVars, selectVars, resolveVars, hreq>>

\* The backoff timer fires: the loop condition is tested and the next attempt issued.
RetryTimerFires ==
    /\ hpc = "sleeping"
    /\ hpc' = IF retryCount <= MaxRetries THEN "requesting" ELSE "thrown"
    /\ hresult' = IF retryCount <= MaxRetries THEN hresult
                  ELSE <<"Unexpected end of retry loop">>
    /\ UNCHANGED <<cacheVars, keyVars, proxyVars, selectVars, resolveVars, hreq, retryCount, attempts, sleeps>>

-----------------------------------------------------------------------------
(* The proxy decision of HttpClient: createDispatcher at construction and  *)
(* shouldUseProxy at each request.  NO_PROXY is a string; "" is unset.     *)

ProxyChars == {"a", "A", ".", ",", "*", " "}
MaxNoProxyLen == 4

RECURSIVE ProxyStringsOfLen(_)
ProxyStringsOfLen(n) ==
    IF n = 0 THEN {<< >>}
    ELSE {Append(s, ch) : s \in ProxyStringsOfLen(n - 1), ch \in ProxyChars}

NoProxyValues == UNION {ProxyStringsOfLen(n) : n \in 0 .. MaxNoProxyLen}

\* new URL(fullUrl).hostname of the requests that are made.
Hostnames ==
    { <<"a">>, <<"a", "a">>, <<"a", ".", "a">>, <<"a", "a", ".", "a">> }

\* HTTP_PROXY and HTTPS_PROXY: unset or a proxy URL.
HttpProxyValues == {"", "http://proxy:8080"}
HttpsProxyValues == {"", "http://secure-proxy:8443"}

\* s.split(sep)
RECURSIVE Split(_, _)
Split(s, sep) ==
    IF \A i \in DOMAIN s : s[i] # sep THEN <<s>>
    ELSE LET k == CHOOSE i \in DOMAIN s :
                    s[i] = sep /\ \A j \in 1 .. (i - 1) : s[j] # sep
         IN <<SubSeq(s, 1, k - 1)>> \o Split(SubSeq(s, k + 1, Len(s)), sep)

RECURSIVE TrimStart(_)
TrimStart(s) ==
    IF s # << >> /\ Head(s) \in Whitespace THEN TrimStart(Tail(s)) ELSE s

RECURSIVE TrimEnd(_)
TrimEnd(s) ==
    IF s # << >> /\ s[Len(s)] \in Whitespace
      THEN TrimEnd(SubSeq(s, 1, Len(s) - 1)) ELSE s

\* s.trim()
Trim(s) == TrimEnd(TrimStart(s))

\* s.toLowerCase(), on the characters the model uses.
LowerCase ==
    ("A" :> "a") @@ ("C" :> "c") @@ ("M" :> "m") @@ ("R" :> "r") @@
    ("H" :> "h") @@ ("N" :> "n") @@ ("O" :> "o") @@ ("P" :> "p") @@
    ("S" :> "s") @@ ("T" :> "t")
ToLowerCase(s) ==
    [i \in 1 .. Len(s) |-> IF s[i] \in DOMAIN LowerCase THEN LowerCase[s[i]] ELSE s[i]]

\* s.startsWith(prefix), s.endsWith(suffix)
StartsWith(s, prefix) ==
    Len(prefix) <= Len(s) /\ SubSeq(s, 1, Len(prefix)) = prefix
EndsWith(s, suffix) ==
    Len(suffix) <= Len(s) /\ SubSeq(s, Len(s) - Len(suffix) + 1, Len(s)) = suffix

\* noProxy.split(',').map(s => s.trim().toLowerCase())
NoProxyList(noProxy) ==
    LET parts == Split(noProxy, ",")
    IN [i \in 1 .. Len(parts) |-> ToLowerCase(Trim(parts[i]))]

\* A bypass test in which an entry without a leading dot matches only the
\* identical hostname.
ShouldUseProxyExactOnly(noProxy, hostname) ==
    IF noProxy = << >> THEN TRUE
    ELSE LET noProxyList == NoProxyList(noProxy)
         IN ~ \E i \in DOMAIN noProxyList :
                LET pattern == noProxyList[i]
                IN IF pattern = <<"*">> THEN TRUE
                   ELSE IF StartsWith(pattern, <<".">>)
                     THEN EndsWith(hostname, pattern)
                   ELSE hostname = pattern

ShouldUseProxy(noProxy, hostname) ==
    IF noProxy = << >> THEN TRUE
    ELSE LET noProxyList == NoProxyList(noProxy)
         IN ~ \E i \in DOMAIN noProxyList :
                LET pattern == noProxyList[i]
                IN IF pattern = <<"*">> THEN TRUE
                   ELSE IF StartsWith(pattern, <<".">>)
                     THEN EndsWith(hostname, pattern) \/ hostname = Tail(pattern)
                   ELSE hostname = pattern \/ EndsWith(hostname, <<".">> \o pattern)

\* The dispatcher built by the constructor.
CreateDispatcher(httpProxy, httpsProxy) ==
    IF httpProxy # "" \/ httpsProxy # ""
      THEN [agent |-> "ProxyAgent",
            uri |-> IF httpsProxy # "" THEN httpsProxy ELSE httpProxy]
      ELSE [agent |-> "Agent"]

\* The dispatcher that request() hands to the attempt.
RequestDispatcher(dispatcher, useProxy) ==
    IF ~useProxy /\ dispatcher.agent = "ProxyAgent"
      THEN [agent |-> "Agent"]
      ELSE dispatcher

ProxyIdle == [idle |-> TRUE]

ProxyInit ==
    /\ pin \in [httpProxy : HttpProxyValues, httpsProxy : HttpsProxyValues,
                 noProxy : NoProxyValues, hostname : Hostnames]
    /\ pout = ProxyIdle

\* The client is constructed and then asked for one request to the host.
DecideProxy ==
    /\ pout = ProxyIdle
    /\ pout' = LET useProxy == ShouldUseProxy(pin.noProxy, pin.hostname)
               IN [useProxy |-> useProxy,
                   dispatcher |-> RequestDispatcher(
                       CreateDispatcher(pin.httpProxy, pin.httpsProxy), useProxy)]
    /\ UNCHANGED <<cacheVars, keyVars, httpVars, selectVars, resolveVars, pin>>

-----------------------------------------------------------------------------
(* Versions: isStableVersion, compareVersions and the selection made by    *)
(* queryMavenApi from the primary document and the version history.        *)
(* A version is a sequence of one-character strings.                       *)

Digits == {"0", "1", "2", "3", "4", "5", "6", "7", "8", "9"}
DigitValue ==
    ("0" :> 0) @@ ("1" :> 1) @@ ("2" :> 2) @@ ("3" :> 3) @@ ("4" :> 4) @@
    ("5" :> 5) @@ ("6" :> 6) @@ ("7" :> 7) @@ ("8" :> 8) @@ ("9" :> 9)

\* The alternatives of /(preview|rc|alpha|beta|snapshot|m\d+)/i that are words.
PreReleaseWords ==
    { <<"p", "r", "e", "v", "i", "e", "w">>, <<"r", "c">>,
      <<"a", "l", "p", "h", "a">>, <<"b", "e", "t", "a">>,
      <<"s", "n", "a", "p", "s", "h", "o", "t">> }

\* s.includes(t)
Contains(s, t) ==
    \E i \in 1 .. (Len(s) - Len(t) + 1) : SubSeq(s, i, i + Len(t) - 1) = t

\* A test that knows the words and not the milestones.
IsStableVersionWordsOnly(version) ==
    ~ \E w \in PreReleaseWords : Contains(ToLowerCase(version), w)

\* A test that tells upper case from lower case.
IsStableVersionCaseSensitive(version) ==
    ~ \/ \E w \in PreReleaseWords : Contains(version, w)
      \/ \E i \in 1 .. (Len(version) - 1) :
            version[i] = "m" /\ version[i + 1] \in Digits

IsStableVersion(version) ==
    LET v == ToLowerCase(version)
    IN ~ \/ \E w \in PreReleaseWords : Contains(v, w)
         \/ \E i \in 1 .. (Len(v) - 1) : v[i] = "m" /\ v[i + 1] \in Digits

IsDigit(ch) == ch \in Digits
IsUnstable(version) == ~IsStableVersion(version)

\* parseInt(digits, 10), NaN (no digit) replaced by 0
RECURSIVE ParseInt(_)
ParseInt(ds) ==
    IF ds = << >> THEN 0
    ELSE 10 * ParseInt(SubSeq(ds, 1, Len(ds) - 1)) + DigitValue[ds[Len(ds)]]

\* v.split('.').map(part => parseInt(part.replace(/[^\d]/g, ''), 10) or 0)
ParseVersion(v) ==
    LET parts == Split(v, ".")
    IN [i \in 1 .. Len(parts) |-> ParseInt(SelectSeq(parts[i], IsDigit))]

Max(a, b) == IF a > b THEN a ELSE b

\* A comparison clamped to -1, 0, 1.
CompareVersionsSign(a, b) ==
    LET aParts == ParseVersion(a)
        bParts == ParseVersion(b)
        maxLength == Max(Len(aParts), Len(bParts))
        aPart(i) == IF i <= Len(aParts) THEN aParts[i] ELSE 0
        bPart(i) == IF i <= Len(bParts) THEN bParts[i] ELSE 0
        differ == {i \in 1 .. maxLength : aPart(i) # bPart(i)}
    IN IF differ = {} THEN 0
       ELSE LET i == CHOOSE d \in differ : \A e \in differ : d <= e
            IN IF aPart(i) > bPart(i) THEN 1 ELSE -1

\* A comparison that stops at the end of the shorter version.
CompareVersionsNoPadding(a, b) ==
    LET aParts == ParseVersion(a)
        bParts == ParseVersion(b)
        minLength == Min(Len(aParts), Len(bParts))
        differ == {i \in 1 .. minLength : aParts[i] # bParts[i]}
    IN IF differ = {} THEN 0
       ELSE LET i == CHOOSE d \in differ : \A e \in differ : d <= e
            IN aParts[i] - bParts[i]

CompareVersions(a, b) ==
    LET aParts == ParseVersion(a)
        bParts == ParseVersion(b)
        maxLength == Max(Len(aParts), Len(bParts))
        aPart(i) == IF i <= Len(aParts) THEN aParts[i] ELSE 0
        bPart(i) == IF i <= Len(bParts) THEN bParts[i] ELSE 0
        differ == {i \in 1 .. maxLength : aPart(i) # bPart(i)}
    IN IF differ = {} THEN 0
       ELSE LET i == CHOOSE d \in differ : \A e \in differ : d <= e
            IN aPart(i) - bPart(i)

\* A sort that leaves the list in the order of the index.
SortDescendingKeepsOrder(versions) == versions

\* versions.sort((a, b) => compareVersions(b, a)): a stable sort, largest first.
RECURSIVE SortDescending(_)
SortDescending(versions) ==
    IF versions = << >> THEN << >>
    ELSE LET sorted == SortDescending(SubSeq(versions, 1, Len(versions) - 1))
             x == versions[Len(versions)]
             before == {i \in DOMAIN sorted : CompareVersions(x, sorted[i]) > 0}
             k == IF before = {} THEN Len(sorted) + 1
                  ELSE CHOOSE i \in before : \A j \in before : i <= j
         IN SubSeq(sorted, 1, k - 1) \o <<x>> \o SubSeq(sorted, k, Len(sorted))

\* [...new Set(list)]: first occurrences, in order
RECURSIVE Dedup(_)
Dedup(list) ==
    IF list = << >> THEN << >>
    ELSE LET init == Dedup(SubSeq(list, 1, Len(list) - 1))
             x == list[Len(list)]
         IN IF \E i \in DOMAIN init : init[i] = x THEN init ELSE Append(init, x)

MaxExcluded == 10

\* A slice that keeps the whole list.
SliceAll(list, n) == list

\* list.slice(0, n)
Slice(list, n) == SubSeq(list, 1, Min(n, Len(list)))

\* doc.timestamp, in epoch milliseconds.
Timestamps == {61001}

\* obj.field is undefined
Lacks(obj, field) == field \notin DOMAIN obj

\* new Date(ms).toISOString(), for clock readings within the first hour.
ToISOString(ms) ==
    [date |-> "1970-01-01", hh |-> 0, mm |-> ms \div 60000,
     ss |-> (ms % 60000) \div 1000, sss |-> ms % 1000, zone |-> "Z"]

Repository == "Maven Central"

NoStableVersionsMessage(groupId, artifactId, latestVersion) ==
    <<"No stable versions found for", groupId, ":", artifactId,
      "(latest version", latestVersion, "is pre-release)">>

\* A result that carries the optional fields even when nothing was excluded.
BuildResultAlwaysCounts(finalVersion, artifact, excludedVersions) ==
    IF Lacks(artifact, "timestamp") THEN [error |-> <<"Invalid time value">>]
    ELSE [latestVersion |-> finalVersion,
          lastUpdated |-> ToISOString(artifact.timestamp),
          repository |-> Repository,
          excludedVersions |-> Slice(Dedup(excludedVersions), MaxExcluded),
          totalVersions |-> Len(excludedVersions) + 1]

\* A result whose count is taken from the list it returns.
BuildResultCountsListed(finalVersion, artifact, excludedVersions) ==
    IF Lacks(artifact, "timestamp") THEN [error |-> <<"Invalid time value">>]
    ELSE IF Len(excludedVersions) > 0
      THEN [latestVersion |-> finalVersion,
            lastUpdated |-> ToISOString(artifact.timestamp),
            repository |-> Repository,
            excludedVersions |-> Slice(Dedup(excludedVersions), MaxExcluded),
            totalVersions |->
                Len(Slice(Dedup(excludedVersions), MaxExcluded)) + 1]
      ELSE [latestVersion |-> finalVersion,
            lastUpdated |-> ToISOString(artifact.timestamp),
            repository |-> Repository]

\* Lines 155-166 of queryMavenApi: the result record, or the RangeError of
\* toISOString on a document without timestamp.
BuildResult(finalVersion, artifact, excludedVersions) ==
    IF Lacks(artifact, "timestamp") THEN [error |-> <<"Invalid time value">>]
    ELSE IF Len(excludedVersions) > 0
      THEN [latestVersion |-> finalVersion,
            lastUpdated |-> ToISOString(artifact.timestamp),
            repository |-> Repository,
            excludedVersions |-> Slice(Dedup(excludedVersions), MaxExcluded),
            totalVersions |-> Len(excludedVersions) + 1]
      ELSE [latestVersion |-> finalVersion,
            lastUpdated |-> ToISOString(artifact.timestamp),
            repository |-> Repository]

\* doc.timestamp of the documents of the history response.
HistoryTimestamp == 7000

\* A selection that dates its answer by the history document.
SelectStableDatedByHistory(groupId, artifactId, artifact, allVersions) ==
    LET latestVersion == artifact.latestVersion
        stableVersions == SelectSeq(allVersions, IsStableVersion)
    IN IF Len(stableVersions) = 0
         THEN [error |-> NoStableVersionsMessage(groupId, artifactId, latestVersion)]
         ELSE BuildResult(SortDescending(stableVersions)[1],
                          [latestVersion |-> latestVersion,
                           timestamp |-> HistoryTimestamp],
                          <<latestVersion>> \o SelectSeq(allVersions, IsUnstable))

\* A selection that answers with the nominal version when nothing stable is known.
SelectStableOrNominal(groupId, artifactId, artifact, allVersions) ==
    LET latestVersion == artifact.latestVersion
        stableVersions == SelectSeq(allVersions, IsStableVersion)
    IN BuildResult(IF Len(stableVersions) = 0 THEN latestVersion
                   ELSE SortDescending(stableVersions)[1],
                   artifact,
                   <<latestVersion>> \o SelectSeq(allVersions, IsUnstable))

\* Lines 138-153 of queryMavenApi, once getAllVersions has returned allVersions.
SelectStable(groupId, artifactId, artifact, allVersions) ==
    LET latestVersion == artifact.latestVersion
        stableVersions == SelectSeq(allVersions, IsStableVersion)
    IN IF Len(stableVersions) = 0
         THEN [error |-> NoStableVersionsMessage(groupId, artifactId, latestVersion)]
         ELSE BuildResult(SortDescending(stableVersions)[1], artifact,
                          <<latestVersion>> \o SelectSeq(allVersions, IsUnstable))

\* What the index can list.
V_2_9_0 == <<"2", ".", "9", ".", "0">>
V_2_10_0 == <<"2", ".", "1", "0", ".", "0">>
V_2_10_1 == <<"2", ".", "1", "0", ".", "1">>
V_2_10 == <<"2", ".", "1", "0">>
V_3_0_0_RC1 == <<"3", ".", "0", ".", "0", "-", "R", "C", "1">>
V_3_0_M2 == <<"3", ".", "0", "-", "M", "2">>
V_2_11_beta == <<"2", ".", "1", "1", "-", "b", "e", "t", "a">>

HistoryVersions == {V_2_9_0, V_2_10_0, V_2_10_1, V_2_10, V_3_0_0_RC1, V_2_11_beta}
NominalVersions == {V_2_10_1, V_3_0_0_RC1, V_3_0_M2}
MaxHistory == 3

HistoryLists == UNION {[1 .. n -> HistoryVersions] : n \in 0 .. MaxHistory}

\* Longer histories, as a rows=50 response lists them: release candidates
\* 1.0-rc0, 1.0-rc1, ... that repeat with period m, then one release.
RECURSIVE Decimal(_)
Decimal(k) ==
    LET digit(d) == CHOOSE ch \in Digits : DigitValue[ch] = d
    IN IF k < 10 THEN <<digit(k)>>
       ELSE Append(Decimal(k \div 10), digit(k % 10))

ReleaseCandidate(k) == <<"1", ".", "0", "-", "r", "c">> \o Decimal(k)
MaxLongHistory == 12

LongHistories ==
    { Append([i \in 1 .. n |-> ReleaseCandidate((i - 1) % m)], V_2_9_0) :
        n \in 0 .. MaxLongHistory, m \in 1 .. MaxLongHistory }

\* docs[0] of the primary response when it has a usable latestVersion.
ArtifactDocs ==
    [latestVersion : NominalVersions, timestamp : Timestamps]
        \cup [latestVersion : NominalVersions]

SelectIdle == [idle |-> TRUE]

SelectInit ==
    /\ vin \in [coord : Coordinates, artifact : ArtifactDocs,
                 allVersions : HistoryLists]
    /\ vout = SelectIdle

\* Lines 126-166 of queryMavenApi on the document and the history drawn.
SelectVersion ==
    /\ vout = SelectIdle
    /\ vout' = IF IsStableVersion(vin.artifact.latestVersion)
                 THEN BuildResult(vin.artifact.latestVersion, vin.artifact, << >>)
                 ELSE SelectStable(vin.coord[1], vin.coord[2], vin.artifact,
                                   vin.allVersions)
    /\ UNCHANGED <<cacheVars, keyVars, httpVars, proxyVars, resolveVars, vin>>

\* compareVersions on two version strings: every non-empty string over
\* VersionChars up to MaxVersionLen characters, and the versions above.
V_1_8 == <<"1", ".", "8">>
V_1_8_0 == <<"1", ".", "8", ".", "0">>
V_1_8_Final == <<"1", ".", "8", ".", "F", "i", "n", "a", "l">>
VersionChars == {"1", "9", "."}
MaxVersionLen == 3
VersionStrings ==
    UNION {[1 .. n -> VersionChars] : n \in 1 .. MaxVersionLen}
        \cup HistoryVersions \cup {V_1_8, V_1_8_0, V_1_8_Final}

CompareInit ==
    /\ vin \in [a : VersionStrings, b : VersionStrings]
    /\ vout = SelectIdle

CompareApply ==
    /\ vout = SelectIdle
    /\ vout' = [ab |-> CompareVersions(vin.a, vin.b),
                ba |-> CompareVersions(vin.b, vin.a)]
    /\ UNCHANGED <<cacheVars, keyVars, httpVars, proxyVars, resolveVars, vin>>

\* isStableVersion on one version string: up to MaxPieces pieces put together,
\* and the versions the documentation names.
V_6_2_8 == <<"6", ".", "2", ".", "8">>
V_7_0_0_M1 == <<"7", ".", "0", ".", "0", "-", "M", "1">>
V_2_0_0_RC1 == <<"2", ".", "0", ".", "0", "-", "R", "C", "1">>
V_1_6_0_SNAPSHOT ==
    <<"1", ".", "6", ".", "0", "-", "S", "N", "A", "P", "S", "H", "O", "T">>
VersionPieces ==
    { <<"6">>, <<"1">>, <<".">>, <<"-">>, <<"M">>, <<"m">>, <<"r">>, <<"C">>,
      <<"A", "l", "p", "h", "a">>, <<"b", "e", "t", "a">>,
      <<"P", "r", "e", "v", "i", "e", "w">>,
      <<"S", "N", "A", "P", "S", "H", "O", "T">>,
      <<"s", "n", "a", "p">>, <<"s", "h", "o", "t">> }
MaxPieces == 3

RECURSIVE Concat(_)
Concat(pieces) ==
    IF pieces = << >> THEN << >> ELSE Head(pieces) \o Concat(Tail(pieces))

PiecedVersions ==
    {Concat(ps) : ps \in UNION {[1 .. n -> VersionPieces] : n \in 1 .. MaxPieces}}
        \cup {V_6_2_8, V_7_0_0_M1, V_2_0_0_RC1, V_1_6_0_SNAPSHOT}

IsStableInit ==
    /\ vin \in [version : PiecedVersions]
    /\ vout = SelectIdle

\* Two applications to the same string.
IsStableApply ==
    /\ vout = SelectIdle
    /\ vout' = [stable |-> IsStableVersion(vin.version),
                again |-> IsStableVersion(vin.version)]
    /\ UNCHANGED <<cacheVars, keyVars, httpVars, proxyVars, resolveVars, vin>>

\* The same selection on short and on long histories.
ExcludedInit ==
    /\ vin \in [coord : Coordinates, artifact : ArtifactDocs,
                 allVersions : HistoryLists \cup LongHistories]
    /\ vout = SelectIdle

-----------------------------------------------------------------------------
(* MavenResolver.getLatestVersion.  A call runs in steps separated by its  *)
(* awaits: the entry up to the primary query, the continuation after the   *)
(* primary response, the continuation after the history response.  What    *)
(* httpClient.get does is computed by RetryLoop from the outcomes of the   *)
(* attempts it makes.                                                      *)

\* The retry loop of HttpClient.request on the outcomes of its attempts:
\* what it returns or throws, and how many attempts and sleeps it took.
RECURSIVE RetryLoop(_, _, _, _, _)
RetryLoop(outcomes, count, slept, url, method) ==
    IF count > MaxRetries
      THEN [status |-> "thrown", value |-> <<"Unexpected end of retry loop">>,
            attempts |-> count, sleeps |-> slept]
    ELSE LET outcome == outcomes[count + 1]
         IN IF "status" \in DOMAIN outcome
              THEN [status |-> "returned", value |-> outcome,
                    attempts |-> count + 1, sleeps |-> slept]
            ELSE IF count + 1 > MaxRetries
              THEN [status |-> "thrown",
                    value |-> CreateHttpError(outcome, url, method),
                    attempts |-> count + 1, sleeps |-> slept]
            ELSE RetryLoop(outcomes, count + 1,
                           Append(slept, RetryDelay(count + 1)), url, method)

\* httpClient.get(url, options)
HttpGet(outcomes, url) == RetryLoop(outcomes, 0, << >>, url, "GET")

\* The failure that the earlier attempts of a run meet.
RetriedError == [code |-> "ECONNRESET", statusCode |-> "", message |-> "read ECONNRESET"]

\* Complete runs of the retry loop: up to two failures and a response, or
\* three failures.
Runs(bodies) ==
    LET ok == {[status |-> "200", data |-> b] : b \in bodies}
    IN {<<r>> : r \in ok}
         \cup {<<RetriedError, r>> : r \in ok}
         \cup {<<RetriedError, RetriedError, r>> : r \in ok}
         \cup {<<RetriedError, RetriedError, e>> : e \in Errors}

\* Response bodies.  A JSON body is a record; null is the body "null"; a body
\* whose content type is not JSON reaches the resolver as text.
JsonNull == [json |-> "null"]
TextBody == [text |-> "<html>Service Unavailable</html>"]

\* A document of the primary response without latestVersion, and one whose
\* latestVersion is the empty string.
DocWithoutVersion == [g |-> "a.b", a |-> "c"]
DocWithEmptyVersion == [latestVersion |-> << >>, timestamp |-> 61001]

PrimaryBodies ==
    {JsonNull, TextBody, [responseHeader |-> "status 0"],
     [response |-> [numFound |-> 0]], [response |-> [docs |-> << >>]]}
      \cup {[response |-> [docs |-> <<d>>]] :
               d \in ArtifactDocs \cup {DocWithoutVersion, DocWithEmptyVersion}}

\* The docs of the history responses: version documents, one without v.
HistoryDoc(version) == [v |-> version, timestamp |-> HistoryTimestamp]
HistoryDocs ==
    { << >>,
      <<HistoryDoc(V_3_0_0_RC1), HistoryDoc(V_2_11_beta)>>,
      <<HistoryDoc(V_3_0_0_RC1), HistoryDoc(V_2_9_0), [id |-> "a.b:c"],
        HistoryDoc(V_2_10_1), HistoryDoc(V_2_11_beta), HistoryDoc(V_2_10_0)>> }

HistoryBodies ==
    {JsonNull, [responseHeader |-> "status 0"]}
      \cup {[response |-> [docs |-> ds]] : ds \in HistoryDocs}

\* The values a caller passes as groupId and artifactId.
StringValue(chars) == [typeof |-> "string", chars |-> chars]
ValidGroupId == StringValue(<<"a", ".", "b">>)
ValidArtifactId == StringValue(<<"c">>)
InvalidIdValues ==
    {StringValue(<< >>), StringValue(<<" ", " ">>), StringValue(<<"c", "@">>),
     StringValue(<<"c", " ">>), [typeof |-> "undefined"], [typeof |-> "number"]}
Requests ==
    {[groupId |-> ValidGroupId, artifactId |-> ValidArtifactId]}
      \cup [groupId : {ValidGroupId}, artifactId : InvalidIdValues]
      \cup [groupId : InvalidIdValues, artifactId : {ValidArtifactId}]
      \cup {[groupId |-> StringValue(<<"c", "@">>), artifactId |-> StringValue(<< >>)]}

\* validateInput on the values passed: a value that is not a string fails the
\* same test as the empty string.
ValidateRequest(request) ==
    IF request.groupId.typeof # "string"
      THEN "groupId is required and must be a non-empty string"
    ELSE IF request.artifactId.typeof # "string"
      THEN ValidateInput(request.groupId.chars, << >>)
    ELSE ValidateInput(request.groupId.chars, request.artifactId.chars)

CoordinateOf(request) == <<request.groupId.chars, request.artifactId.chars>>

\* g:"<groupId>" AND a:"<artifactId>"
QueryString(groupId, artifactId) == <<"g:", groupId, "AND a:", artifactId>>

PrimaryQuery(groupId, artifactId) ==
    [op |-> "query", url |-> BaseUrl, q |-> QueryString(groupId, artifactId),
     rows |-> 1, wt |-> "json"]
HistoryQuery(groupId, artifactId) ==
    [op |-> "query", url |-> BaseUrl, q |-> QueryString(groupId, artifactId),
     rows |-> 50, wt |-> "json", core |-> "gav"]
CacheGetEvent == [op |-> "cache.get"]
CacheSetEvent == [op |-> "cache.set"]

NotFoundMessage(groupId, artifactId) ==
    <<"No artifacts found for", groupId, ":", artifactId>>
NoVersionInfoMessage(groupId, artifactId) ==
    <<"No version information available for", groupId, ":", artifactId>>
NullBodyMessage == <<"Cannot read properties of null (reading 'response')">>

\* new Error(message): an error object with a message and nothing else.
NewError(message) == [message |-> message]

\* A catch block that reports every failure as a network error.
CatchQueryErrorAsNetworkError(error, groupId, artifactId) ==
    <<"Maven API network error for", groupId, ":", artifactId>>

\* The catch block of queryMavenApi: the message of the error it throws.
CatchQueryError(error, groupId, artifactId) ==
    IF ~Lacks(error, "code") /\ error.code = "ECONNABORTED"
      THEN <<"Maven API timeout for", groupId, ":", artifactId>>
    ELSE IF ~Lacks(error, "response")
      THEN <<"Maven API error:", error.response.status, error.response.statusText>>
    ELSE IF ~Lacks(error, "request")
      THEN <<"Maven API network error for", groupId, ":", artifactId>>
    ELSE error.message

\* An annotation that marks every answer as freshly resolved.
WithCachedFresh(record, cached) ==
    [f \in DOMAIN record \cup {"cached"} |->
        IF f = "cached" THEN FALSE ELSE record[f]]

\* { ...record, cached }
WithCached(record, cached) ==
    [f \in DOMAIN record \cup {"cached"} |->
        IF f = "cached" THEN cached ELSE record[f]]

\* The versions getAllVersions returns for a response body.
RECURSIVE VersionsOfDocs(_)
VersionsOfDocs(docs) ==
    IF docs = << >> THEN << >>
    ELSE LET doc == Head(docs)
         IN (IF Lacks(doc, "v") \/ doc.v = << >> THEN << >> ELSE <<doc.v>>)
              \o VersionsOfDocs(Tail(docs))

\* getAllVersions, given what httpClient.get returned or threw.
GetAllVersions(got) ==
    IF got.status = "thrown" THEN << >>
    ELSE LET data == got.value.data
         IN IF data = JsonNull THEN << >>
            ELSE IF Lacks(data, "response") \/ Lacks(data.response, "docs") THEN << >>
            ELSE VersionsOfDocs(data.response.docs)

\* What a call remembers of a finished request: how it ended, after how many
\* attempts and how many sleeps.
Summary(got) ==
    [status |-> got.status, attempts |-> got.attempts, sleeps |-> Len(got.sleeps)]

Callers == {1}
NoArtifact == [none |-> TRUE]
IdleCall ==
    [pc |-> "idle", request |-> NoResult, lookup |-> NoResult, body |-> NoResult,
     artifact |-> NoArtifact, allVersions |-> << >>, gots |-> << >>,
     result |-> NoResult, trace |-> << >>, lastWriter |-> FALSE,
     raised |-> NoResult]

ResolveInit ==
    /\ CacheInit
    /\ calls = [i \in Callers |-> IdleCall]

\* The call ends: it returns the record or throws the error.
Returned(call, record, events) ==
    [call EXCEPT !.pc = "returned", !.result = record,
                 !.trace = call.trace \o events]
Thrown(call, message, events) ==
    [call EXCEPT !.pc = "thrown", !.result = [error |-> message],
                 !.trace = call.trace \o events]

\* getLatestVersion up to its first await: validation, the cache lookup and,
\* on a miss, the primary query.
Resolve(i, request) ==
    /\ calls[i].pc \in {"idle", "returned", "thrown"}
    /\ LET call == [IdleCall EXCEPT !.request = request]
           valid == ValidateRequest(request)
       IN IF valid # "ok"
            THEN /\ calls' = [calls EXCEPT ![i] = Thrown(call, <<valid>>, << >>)]
                 /\ cache' = cache
            ELSE LET c == CoordinateOf(request)
                     cachedResult == CacheGetValue(cache, c, now)
                     found == MapGet(cache, KeyOf(c))
                     looked == [call EXCEPT !.lookup =
                                  [found |-> found,
                                   unexpired |-> IF found = NoEntry THEN FALSE
                                                 ELSE now <= found.expiresAt,
                                   withinTtl |-> /\ c \in DOMAIN lastSet
                                                 /\ lastSet[c] # NoSet
                                                 /\ now - lastSet[c].at < ttlMs,
                                   destroyed |-> destroyed]]
                 IN /\ cache' = CacheAfterGet(cache, c, now)
                    /\ calls' = [calls EXCEPT ![i] =
                         IF cachedResult # Null
                           THEN Returned(looked, WithCached(cachedResult, TRUE),
                                         <<CacheGetEvent>>)
                           ELSE [looked EXCEPT !.pc = "primary",
                                   !.trace = <<CacheGetEvent, PrimaryQuery(c[1], c[2])>>]]
    /\ UNCHANGED <<keyVars, httpVars, proxyVars, selectVars, now, ttlMs,
                   cleanupInterval, nextSweep, destroyed, last, lastSet>>

\* An ending that stores what it has even when queryMavenApi threw.
FinishStoresFailure(i, call, built) ==
    /\ calls' = [calls EXCEPT ![i] =
          IF "error" \in DOMAIN built THEN Thrown(call, built.error, << >>)
          ELSE Returned(call, WithCached(built, FALSE), <<CacheSetEvent>>)]
    /\ cache' = CacheAfterSet(cache, CoordinateOf(call.request), built, now, ttlMs)
    /\ lastSet' = lastSet

\* An ending that returns the record and stores nothing.
FinishWithoutSet(i, call, built) ==
    /\ calls' = [calls EXCEPT ![i] =
          IF "error" \in DOMAIN built THEN Thrown(call, built.error, << >>)
          ELSE Returned(call, WithCached(built, FALSE), <<CacheSetEvent>>)]
    /\ cache' = cache
    /\ lastSet' = lastSet

\* An ending that stores nothing once the cache has been destroyed.
FinishUnlessDestroyed(i, call, built) ==
    /\ calls' = [calls EXCEPT ![i] =
          IF "error" \in DOMAIN built THEN Thrown(call, built.error, << >>)
          ELSE Returned(call, WithCached(built, FALSE), <<CacheSetEvent>>)]
    /\ cache' = IF "error" \in DOMAIN built \/ destroyed THEN cache
                ELSE CacheAfterSet(cache, CoordinateOf(call.request), built, now, ttlMs)
    /\ lastSet' = lastSet

\* An ending that leaves an entry already stored under the coordinate in place.
FinishKeepsFirstRecord(i, call, built) ==
    LET c == CoordinateOf(call.request)
    IN IF "error" \in DOMAIN built
         THEN /\ calls' = [calls EXCEPT ![i] = Thrown(call, built.error, << >>)]
              /\ cache' = cache
              /\ lastSet' = lastSet
         ELSE /\ calls' = [j \in DOMAIN calls |->
                   IF j = i
                     THEN [Returned(call, WithCached(built, FALSE), <<CacheSetEvent>>)
                             EXCEPT !.lastWriter = TRUE]
                     ELSE [calls[j] EXCEPT !.lastWriter =
                             @ /\ CoordinateOf(calls[j].request) # c]]
              /\ cache' = IF MapGet(cache, KeyOf(c)) # NoEntry THEN cache
                          ELSE CacheAfterSet(cache, c, built, now, ttlMs)
              /\ lastSet' = [lastSet EXCEPT ![c] = [data |-> built, at |-> now]]

\* The end of queryMavenApi and of getLatestVersion: the error passes the two
\* catch blocks and is thrown, or the record is stored and returned with
\* cached = false.  lastSet and lastWriter keep which set was the last one.
Finish(i, call, built) ==
    LET c == CoordinateOf(call.request)
    IN IF "error" \in DOMAIN built
         THEN /\ calls' = [calls EXCEPT ![i] =
                   Thrown([call EXCEPT !.raised = [error |-> built.error]],
                          CatchQueryError(NewError(built.error), c[1], c[2]),
                          << >>)]
              /\ cache' = cache
              /\ lastSet' = lastSet
         ELSE /\ calls' = [j \in DOMAIN calls |->
                   IF j = i
                     THEN [Returned(call, WithCached(built, FALSE), <<CacheSetEvent>>)
                             EXCEPT !.lastWriter = TRUE]
                     ELSE [calls[j] EXCEPT !.lastWriter =
                             @ /\ CoordinateOf(calls[j].request) # c]]
              /\ cache' = CacheAfterSet(cache, c, built, now, ttlMs)
              /\ lastSet' = [lastSet EXCEPT ![c] = [data |-> built, at |-> now]]

\* queryMavenApi after the primary response: the checks of the body, and then
\* the stable answer or the history query.
PrimaryCompletes(i, outcomes) ==
    /\ calls[i].pc = "primary"
    /\ LET got == HttpGet(outcomes, BaseUrl)
           c == CoordinateOf(calls[i].request)
           call == [calls[i] EXCEPT !.gots = Append(@, Summary(got))]
       IN IF got.status = "thrown" THEN Finish(i, call, [error |-> got.value])
          ELSE LET data == got.value.data
                   read == [call EXCEPT !.body = data]
               IN IF data = JsonNull THEN Finish(i, read, [error |-> NullBodyMessage])
                  ELSE IF \/ Lacks(data, "response")
                          \/ Lacks(data.response, "docs")
                          \/ Len(data.response.docs) = 0
                    THEN Finish(i, read, [error |-> NotFoundMessage(c[1], c[2])])
                  ELSE LET artifact == data.response.docs[1]
                           taken == [read EXCEPT !.artifact = artifact]
                       IN IF \/ Lacks(artifact, "latestVersion")
                             \/ artifact.latestVersion = << >>
                            THEN Finish(i, taken,
                                        [error |-> NoVersionInfoMessage(c[1], c[2])])
                          ELSE IF IsStableVersion(artifact.latestVersion)
                            THEN Finish(i, taken,
                                   BuildResult(artifact.latestVersion, artifact, << >>))
                          ELSE /\ calls' = [calls EXCEPT ![i] =
                                     [taken EXCEPT !.pc = "history",
                                        !.trace = Append(taken.trace,
                                                    HistoryQuery(c[1], c[2]))]]
                               /\ cache' = cache
                               /\ lastSet' = lastSet
    /\ UNCHANGED <<keyVars, httpVars, proxyVars, selectVars, now, ttlMs,
                   cleanupInterval, nextSweep, destroyed, last>>

\* A continuation that looks into the cache again when the history has arrived.
HistoryCompletesLooksAgain(i, outcomes) ==
    /\ calls[i].pc = "history"
    /\ LET got == HttpGet(outcomes, BaseUrl)
           c == CoordinateOf(calls[i].request)
           call == [calls[i] EXCEPT !.gots = Append(@, Summary(got)),
                                    !.allVersions = GetAllVersions(got),
                                    !.trace = Append(@, CacheGetEvent)]
       IN Finish(i, call,
                 SelectStable(c[1], c[2], call.artifact, call.allVersions))
    /\ UNCHANGED <<keyVars, httpVars, proxyVars, selectVars, now, ttlMs,
                   cleanupInterval, nextSweep, destroyed, last>>

\* A continuation that asks for the history again when the request failed.
HistoryCompletesAsksAgain(i, outcomes) ==
    /\ calls[i].pc = "history"
    /\ LET got == HttpGet(outcomes, BaseUrl)
           c == CoordinateOf(calls[i].request)
           call == [calls[i] EXCEPT !.gots = Append(@, Summary(got)),
                                    !.allVersions = GetAllVersions(got)]
       IN IF got.status = "thrown"
            THEN /\ calls' = [calls EXCEPT ![i] =
                      [call EXCEPT !.trace = Append(@, HistoryQuery(c[1], c[2]))]]
                 /\ cache' = cache
                 /\ lastSet' = lastSet
          ELSE Finish(i, call,
                      SelectStable(c[1], c[2], call.artifact, call.allVersions))
    /\ UNCHANGED <<keyVars, httpVars, proxyVars, selectVars, now, ttlMs,
                   cleanupInterval, nextSweep, destroyed, last>>

\* queryMavenApi after getAllVersions has returned: the stable selection.
HistoryCompletes(i, outcomes) ==
    /\ calls[i].pc = "history"
    /\ LET got == HttpGet(outcomes, BaseUrl)
           c == CoordinateOf(calls[i].request)
           call == [calls[i] EXCEPT !.gots = Append(@, Summary(got)),
                                    !.allVersions = GetAllVersions(got)]
       IN Finish(i, call,
                 SelectStable(c[1], c[2], call.artifact, call.allVersions))
    /\ UNCHANGED <<keyVars, httpVars, proxyVars, selectVars, now, ttlMs,
                   cleanupInterval, nextSweep, destroyed, last>>

\* Two callers of getLatestVersion whose calls interleave at the awaits.  Both
\* ask for the same coordinate; a primary query is answered with a stable or
\* an unstable document or fails, a history query lists a stable version or
\* does not.
RaceCallers == {1, 2}
RaceRequests == {[groupId |-> ValidGroupId, artifactId |-> ValidArtifactId]}
RacePrimaryRuns ==
    {<<[status |-> "200", data |-> [response |-> [docs |-> <<d>>]]]>> :
        d \in [latestVersion : {V_2_10_1, V_3_0_0_RC1}, timestamp : Timestamps]}
      \cup {<<RetriedError, RetriedError, RetriedError>>}
RaceHistoryRuns ==
    {<<[status |-> "200", data |-> [response |-> [docs |-> ds]]]>> :
        ds \in HistoryDocs \ {<< >>}}

\* The cache of the interleaved calls keeps what it is given for a while.
RaceTtlChoices == TtlChoices \ {0}
RaceInit ==
    /\ CacheInit
    /\ ttlMs \in RaceTtlChoices
    /\ calls = [i \in RaceCallers |-> IdleCall]

-----------------------------------------------------------------------------
(* Start-up: the modules create their singletons when they are loaded.     *)
(* The environment holds CACHE_TTL_MINUTES and MAVEN_API_TIMEOUT, each     *)
(* unset or a string of digits.                                            *)

DefaultTtlMinutes == 5
DefaultTimeoutMs == 10000

Unset == [unset |-> TRUE]
EnvDigits == {"0", "1", "5"}
MaxEnvDigits == 2
EnvValues ==
    {Unset} \cup {[value |-> ds] :
                    ds \in UNION {[1 .. n -> EnvDigits] : n \in 1 .. MaxEnvDigits}}
Environments == [CACHE_TTL_MINUTES : EnvValues, MAVEN_API_TIMEOUT : EnvValues]

\* export const cacheManager = new CacheManager()
CacheManagerSingleton == [ttlMinutes |-> DefaultTtlMinutes]
\* export const mavenResolver = new MavenResolver()
MavenResolverSingleton == [timeout |-> DefaultTimeoutMs]

StartInit ==
    /\ vin \in [env : Environments]
    /\ vout = SelectIdle

\* The modules are loaded: the TTL that set will use and the timeout that the
\* resolver will pass with each query.
LoadModules ==
    /\ vout = SelectIdle
    /\ vout' = [ttlMs |-> CacheManagerSingleton.ttlMinutes * 60 * 1000,
                timeout |-> MavenResolverSingleton.timeout]
    /\ UNCHANGED <<cacheVars, keyVars, httpVars, proxyVars, resolveVars, vin>>

-----------------------------------------------------------------------------
(* Specifications.                                                         *)

CacheParked ==
    /\ now = 0
    /\ ttlMs = 0
    /\ cache = EmptyMap
    /\ cleanupInterval = TRUE
    /\ nextSweep = SweepPeriod
    /\ destroyed = FALSE
    /\ last = NoOp
    /\ lastSet = [c \in Coordinates |-> NoSet]

KeyParked == kin = KeyIdle /\ kout = KeyIdle

HttpParked ==
    /\ hpc = "idle"
    /\ hreq = [method |-> "GET", url |-> BaseUrl]
    /\ retryCount = 0
    /\ attempts = << >>
    /\ sleeps = << >>
    /\ hresult = NoResult

ProxyParked == pin = ProxyIdle /\ pout = ProxyIdle

SelectParked == vin = SelectIdle /\ vout = SelectIdle

ResolveParked == calls = << >>

\* The cache under every interleaving of its operations, its timer and the clock.
Init == CacheInit /\ KeyParked /\ HttpParked /\ ProxyParked /\ SelectParked /\ ResolveParked
Next ==
    \/ Tick
    \/ \E c \in Coordinates : Get(c)
    \/ \E c \in Coordinates, data \in VersionInfos : Set(c, data)
    \/ Clear
    \/ GetStats
    \/ ForceCleanup
    \/ Sweep
    \/ Destroy
Spec == Init /\ [][Next]_vars

\* The cache key on every pair of short coordinates.
InitKey == KeyInit /\ CacheParked /\ HttpParked /\ ProxyParked /\ SelectParked /\ ResolveParked
NextKey == ApplyKey
SpecKey == InitKey /\ [][NextKey]_vars

\* One call of HttpClient.request under every sequence of attempt outcomes.
InitHttp == HttpInit /\ CacheParked /\ KeyParked /\ ProxyParked /\ SelectParked /\ ResolveParked
NextHttp ==
    \/ HttpRequest
    \/ \E resp \in Responses : AttemptSucceeds(resp)
    \/ \E error \in Errors : AttemptFails(error)
    \/ RetryTimerFires
SpecHttp == InitHttp /\ [][NextHttp]_vars

\* Calls of getLatestVersion, one after the other, over the cache, its timer and
\* the clock, under every outcome of the queries.
InitResolve ==
    ResolveInit /\ KeyParked /\ HttpParked /\ ProxyParked /\ SelectParked
NextResolve ==
    \/ \E i \in Callers, request \in Requests : Resolve(i, request)
    \/ \E i \in Callers, outcomes \in Runs(PrimaryBodies) : PrimaryCompletes(i, outcomes)
    \/ \E i \in Callers, outcomes \in Runs(HistoryBodies) : HistoryCompletes(i, outcomes)
    \/ Tick
    \/ Sweep
SpecResolve == InitResolve /\ [][NextResolve]_vars

\* getLatestVersion when every request that is awaited ends: each attempt
\* completes or times out, and the retry loop makes at most MaxRetries + 1.
TerminateRequests ==
    RaceRequests \cup {[groupId |-> StringValue(<<"c", "@">>),
                        artifactId |-> StringValue(<< >>)]}
TerminatePrimaryRuns ==
    Runs({[response |-> [docs |-> << >>]]}
           \cup {[response |-> [docs |-> <<d>>]] :
                    d \in [latestVersion : {V_2_10_1, V_3_0_0_RC1},
                           timestamp : Timestamps]})
TerminateHistoryRuns ==
    Runs({[response |-> [docs |-> ds]] : ds \in HistoryDocs})
ResponsesArrive ==
    \A i \in Callers :
        /\ WF_vars(\E outcomes \in TerminatePrimaryRuns : PrimaryCompletes(i, outcomes))
        /\ WF_vars(\E outcomes \in TerminateHistoryRuns : HistoryCompletes(i, outcomes))
InitTerminate == InitResolve
NextTerminate ==
    \/ \E i \in Callers, request \in TerminateRequests : Resolve(i, request)
    \/ \E i \in Callers, outcomes \in TerminatePrimaryRuns : PrimaryCompletes(i, outcomes)
    \/ \E i \in Callers, outcomes \in TerminateHistoryRuns : HistoryCompletes(i, outcomes)
    \/ Tick
    \/ Sweep
SpecTerminate == InitTerminate /\ [][NextTerminate]_vars /\ ResponsesArrive

\* Interleaved calls of getLatestVersion.
InitRace ==
    RaceInit /\ KeyParked /\ HttpParked /\ ProxyParked /\ SelectParked
NextRace ==
    \/ \E i \in RaceCallers, request \in RaceRequests : Resolve(i, request)
    \/ \E i \in RaceCallers, outcomes \in RacePrimaryRuns : PrimaryCompletes(i, outcomes)
    \/ \E i \in RaceCallers, outcomes \in RaceHistoryRuns : HistoryCompletes(i, outcomes)
    \/ Tick
    \/ Sweep
SpecRace == InitRace /\ [][NextRace]_vars

\* One call of getLatestVersion and the operations of the cache, with the
\* shutdown: cleanup() of index.ts calls cacheManager.destroy().
ShutdownRecords ==
    {[latestVersion |-> V_2_9_0, lastUpdated |-> ToISOString(HistoryTimestamp),
      repository |-> Repository]}
ShutdownCoordinates == {CoordinateOf(request) : request \in RaceRequests}
InitShutdown ==
    ResolveInit /\ ttlMs = TimeUnit /\ KeyParked /\ HttpParked /\ ProxyParked /\ SelectParked
NextShutdown ==
    \/ \E i \in Callers, request \in RaceRequests : Resolve(i, request)
    \/ \E i \in Callers, outcomes \in RacePrimaryRuns : PrimaryCompletes(i, outcomes)
    \/ \E i \in Callers, outcomes \in RaceHistoryRuns : HistoryCompletes(i, outcomes)
    \/ Tick
    \/ Sweep
    \/ Destroy
    \/ \E c \in ShutdownCoordinates : Get(c)
    \/ \E c \in ShutdownCoordinates, data \in ShutdownRecords : Set(c, data)
    \/ GetStats
    \/ ForceCleanup
    \/ Clear
SpecShutdown == InitShutdown /\ [][NextShutdown]_vars

\* The version selection on every primary document and history drawn.
InitSelect ==
    SelectInit /\ CacheParked /\ KeyParked /\ HttpParked /\ ProxyParked /\ ResolveParked
NextSelect == SelectVersion
SpecSelect == InitSelect /\ [][NextSelect]_vars

\* The selection step on long histories.
InitExcluded ==
    ExcludedInit /\ CacheParked /\ KeyParked /\ HttpParked /\ ProxyParked
        /\ ResolveParked
NextExcluded == SelectVersion
SpecExcluded == InitExcluded /\ [][NextExcluded]_vars

\* compareVersions alone.
InitCompare ==
    CompareInit /\ CacheParked /\ KeyParked /\ HttpParked /\ ProxyParked
        /\ ResolveParked
NextCompare == CompareApply
SpecCompare == InitCompare /\ [][NextCompare]_vars

\* isStableVersion alone.
InitIsStable ==
    IsStableInit /\ CacheParked /\ KeyParked /\ HttpParked /\ ProxyParked
        /\ ResolveParked
NextIsStable == IsStableApply
SpecIsStable == InitIsStable /\ [][NextIsStable]_vars

\* Start-up under every environment.
InitStart ==
    StartInit /\ CacheParked /\ KeyParked /\ HttpParked /\ ProxyParked
        /\ ResolveParked
NextStart == LoadModules
SpecStart == InitStart /\ [][NextStart]_vars

\* The proxy decision on every environment and host drawn.
InitProxy ==
    ProxyInit /\ CacheParked /\ KeyParked /\ HttpParked /\ SelectParked /\ ResolveParked
NextProxy == DecideProxy
SpecProxy == InitProxy /\ [][NextProxy]_vars

-----------------------------------------------------------------------------
(* The cache (Spec).                                                       *)

\* C1: get never returns a record whose entry is expired (now > expiresAt) at the
\* time of the call: such an entry is deleted and the call reports a miss.
C1_GetNeverReturnsExpired ==
    (last.op = "get" /\ last.found # NoEntry /\ now > last.found.expiresAt)
        => (last.val = Null /\ KeyOf(last.coord) \notin DOMAIN cache)

\* A get found an expired entry still in the map and reported a miss.
C1_Witness ==
    /\ last.op = "get"
    /\ last.found # NoEntry
    /\ now > last.found.expiresAt
    /\ last.val = Null
    /\ MapSize(cache) = 1

\* C2: set(c, v) followed by get(c) before the TTL has elapsed, with no set, clear
\* or destroy for c in between, returns exactly v, optional fields included.
C2_SetThenGetReturnsRecord ==
    \A c \in Coordinates :
        (last.op = "get" /\ last.coord = c /\ lastSet[c] # NoSet
                         /\ now - lastSet[c].at < ttlMs)
            => last.val = lastSet[c].data

\* A get, some time after the set but within the TTL, returned the record that
\* carries excludedVersions and totalVersions.
C2_Witness ==
    /\ last.op = "get"
    /\ lastSet[last.coord] # NoSet
    /\ now > lastSet[last.coord].at
    /\ now - lastSet[last.coord].at < ttlMs
    /\ last.val = V2
    /\ last.val.excludedVersions = <<"2.1.0-RC1", "2.1.0-beta">>
    /\ last.val.totalVersions = 15

\* C3: a get(c) issued more than the TTL after the last set(c, _) reports a miss,
\* whether or not a sweep or forceCleanup has run, also when the TTL is shorter
\* than the sweep period.
C3_GetAfterTtlIsMiss ==
    \A c \in Coordinates :
        (last.op = "get" /\ last.coord = c /\ lastSet[c] # NoSet
                         /\ now - lastSet[c].at > ttlMs)
            => last.val = Null

\* With a TTL shorter than the sweep period and before the first sweep, a get
\* found the stale entry still in the map and reported a miss.
C3_Witness ==
    /\ last.op = "get"
    /\ 0 < ttlMs /\ ttlMs < SweepPeriod
    /\ cleanupInterval /\ nextSweep = SweepPeriod /\ now < SweepPeriod
    /\ lastSet[last.coord] # NoSet
    /\ now - lastSet[last.coord].at > ttlMs
    /\ last.found # NoEntry
    /\ last.val = Null

\* C4, as claimed: with TTL = 0 a get issued after set(c, v) reports a miss, even
\* at the clock reading of the set.
C4_Original ==
    \A c \in Coordinates :
        (ttlMs = 0 /\ last.op = "get" /\ last.coord = c /\ lastSet[c] # NoSet)
            => last.val = Null

\* C4, amended: with TTL = 0 a get(c) reports a miss once the clock has moved past
\* the reading of the set, and returns v at the reading of the set itself.
C4_ZeroTtlStaleAfterClockMoves ==
    \A c \in Coordinates :
        (ttlMs = 0 /\ last.op = "get" /\ last.coord = c /\ lastSet[c] # NoSet)
            => /\ now > lastSet[c].at => last.val = Null
               /\ now = lastSet[c].at => last.val = lastSet[c].data

\* TTL = 0 and a get at the clock reading of the set returned the record.
C4_Witness ==
    /\ ttlMs = 0
    /\ last.op = "get"
    /\ lastSet[last.coord] # NoSet
    /\ now = lastSet[last.coord].at
    /\ last.val = lastSet[last.coord].data

\* C5: clear() and destroy() each leave size 0, every get is a miss until the next
\* set for its coordinate, and clearing the cleared cache changes nothing.
C5_ClearAndDestroyEmpty ==
    /\ last.op \in {"clear", "destroy"} => MapSize(cache) = 0
    /\ last.op = "clear" => CacheAfterClear(cache, now) = cache
    /\ \A c \in Coordinates :
         (last.op = "get" /\ last.coord = c /\ lastSet[c] = NoSet) => last.val = Null

\* A clear removed two entries and the get that followed was a miss.
C5_Witness ==
    /\ last.op = "get"
    /\ last.prev.op = "clear"
    /\ last.prev.removed = 2
    /\ last.val = Null
    /\ MapSize(cache) = 0

\* C6: after destroy() the sweep timer is gone for good: it never fires and no
\* later operation arms it.
C6_DestroyStopsSweep ==
    destroyed => (cleanupInterval = FALSE /\ last.op # "sweep")

\* After destroy() an entry was set and has expired, the time at which the timer
\* would have fired has passed, and the entry is still counted.
C6_Witness ==
    /\ destroyed
    /\ now >= nextSweep
    /\ \E k \in DOMAIN cache : now > cache[k].expiresAt
    /\ last.op = "stats"
    /\ last.size = 1

\* C7: a set over an existing entry leaves the size unchanged and stores the new
\* payload with expiresAt = now + ttl; the get that follows returns that payload.
C7_LastWriteWins ==
    /\ (last.op = "set" /\ last.found # NoEntry)
         => /\ MapSize(cache) = last.size0
            /\ cache[KeyOf(last.coord)] =
                 [data |-> last.val, timestamp |-> now, expiresAt |-> now + ttlMs]
    /\ (last.op = "get" /\ last.prev.op = "set" /\ last.prev.coord = last.coord
                        /\ last.prev.found # NoEntry)
         => last.val = last.prev.val

\* The record with excludedVersions was overwritten, later, by the record without:
\* the size stayed 1 and the get returned the second record.
C7_Witness ==
    /\ last.op = "get"
    /\ last.prev.op = "set"
    /\ last.prev.coord = last.coord
    /\ last.prev.found # NoEntry
    /\ last.prev.found.data = V2
    /\ last.prev.found.timestamp < now
    /\ last.prev.size0 = 1
    /\ MapSize(cache) = 1
    /\ last.val = V1
    /\ last.found.expiresAt = now + ttlMs

-----------------------------------------------------------------------------
(* The cache key (SpecKey).                                                *)

\* C8: two different coordinates that both pass validation have different cache
\* keys, and a set for one leaves what get returns for the other.
C8_KeyInjective ==
    (kout # KeyIdle /\ kout.ok1 /\ kout.ok2 /\ kin.c1 # kin.c2)
        => (kout.key1 # kout.key2 /\ kout.got = V2)

\* Two valid coordinates made of the same characters in the same order.
C8_Witness ==
    /\ kout # KeyIdle
    /\ kin.c1 = << <<"a", ".">>, <<"a">> >>
    /\ kin.c2 = << <<"a">>, <<".", "a">> >>
    /\ kout.ok1 /\ kout.ok2
    /\ kout.key1 # kout.key2
    /\ kout.got = V2

-----------------------------------------------------------------------------
(* HttpClient.request (SpecHttp).                                          *)

Failed == {i \in DOMAIN attempts : attempts[i] \in Errors}

\* C9: a request whose every attempt fails makes exactly 3 attempts, sleeps 1000 ms
\* and then 2000 ms, does not sleep after the third failure, and only then throws.
C9_ThreeAttemptsThenThrow ==
    /\ hpc = "thrown"
         => /\ Len(attempts) = 3
            /\ Failed = {1, 2, 3}
            /\ sleeps = <<1000, 2000>>
            /\ sleeps[1] + sleeps[2] = 3000
    /\ Failed = {1, 2, 3} => hpc = "thrown"

\* The request has thrown after three failed attempts and two sleeps.
C9_Witness ==
    /\ hpc = "thrown"
    /\ Failed = {1, 2, 3}
    /\ Len(sleeps) = 2
    /\ hresult # NoResult

\* C10: the number of attempts and the delays depend only on how many attempts
\* have failed, never on what kind of failure it was; no kind fails fast.
C10_RetryIgnoresClassification ==
    /\ hpc = "thrown" <=> Cardinality(Failed) = MaxRetries + 1
    /\ hpc = "sleeping" => Cardinality(Failed) = Len(attempts)
    /\ Len(sleeps) = Min(Cardinality(Failed), MaxRetries)
    /\ \A i \in DOMAIN sleeps : sleeps[i] = Min(BaseDelay * 2 ^ (i - 1), MaxDelay)

\* A DNS failure, a body timeout and a 503 were each retried alike.
C10_Witness ==
    /\ hpc = "thrown"
    /\ Len(attempts) = 3
    /\ attempts[1].code = "ENOTFOUND"
    /\ attempts[2].code = "UND_ERR_BODY_TIMEOUT"
    /\ attempts[3].statusCode = "503"
    /\ sleeps = <<RetryDelay(1), RetryDelay(2)>>

\* C11: if attempt k (k <= 3) succeeds, the request returns that attempt's
\* response, makes no attempt after it and surfaces no earlier failure; if all
\* three attempts fail, the error thrown is classified from the third failure.
C11_ReturnsSuccessOrLastFailure ==
    /\ \A i \in DOMAIN attempts :
         attempts[i] \in Responses => (i = Len(attempts) /\ hpc = "returned")
    /\ hpc = "returned"
         => /\ Len(attempts) <= MaxRetries + 1
            /\ hresult = attempts[Len(attempts)]
            /\ hresult \in Responses
            /\ Failed = 1 .. (Len(attempts) - 1)
    /\ hpc = "thrown"
         => hresult = CreateHttpError(attempts[MaxRetries + 1], hreq.url, hreq.method)

\* A DNS failure and a reset were followed by a 503: the error thrown is the
\* status error of the third attempt.
C11_Witness ==
    /\ hpc = "thrown"
    /\ attempts[1].code = "ENOTFOUND"
    /\ attempts[2].code = "ECONNRESET"
    /\ attempts[3].statusCode = "503"
    /\ hresult[1] = "HTTP"
    /\ hresult[2] = "503"

\* The parts of the message of a thrown error.
MessageParts == {hresult[i] : i \in DOMAIN hresult}

\* C12: whatever the classification of the last failure, the error thrown after
\* the retries are exhausted carries the target URL and the HTTP method in its
\* message.
C12_ErrorNamesUrlAndMethod ==
    hpc = "thrown" => (hreq.url \in MessageParts /\ hreq.method \in MessageParts)

-----------------------------------------------------------------------------
(* The proxy decision (SpecProxy).                                         *)

\* The entries of the no-proxy list that the request consults.
NoProxyEntries ==
    IF pin.noProxy = << >> THEN {}
    ELSE {NoProxyList(pin.noProxy)[i] : i \in DOMAIN NoProxyList(pin.noProxy)}

ProxyConfigured == pin.httpProxy # "" \/ pin.httpsProxy # ""
RoutedThroughProxy == pout.dispatcher.agent = "ProxyAgent"

\* C13, as claimed: a request goes through the proxy exactly when a proxy is
\* set and the hostname matches no no-proxy entry, where an entry matches only
\* by equality, by suffix when it starts with a dot, or as the wildcard: an
\* entry without a leading dot matches the identical hostname only.
C13_Original ==
    pout # ProxyIdle =>
        (RoutedThroughProxy <=>
            /\ ProxyConfigured
            /\ ~ \E e \in NoProxyEntries :
                    \/ e = <<"*">>
                    \/ pin.hostname = e
                    \/ StartsWith(e, <<".">>) /\ EndsWith(pin.hostname, e))

\* C13, amended: a request goes through the proxy exactly when a proxy is set
\* and the hostname matches no no-proxy entry, where an entry matches as the
\* wildcard, by equality, as a parent domain (the hostname ends with "." and
\* the entry), or, when it starts with a dot, as a suffix of the hostname or as
\* the hostname with a dot in front.
C13_ProxyUnlessNoProxyMatch ==
    pout # ProxyIdle =>
        (RoutedThroughProxy <=>
            /\ ProxyConfigured
            /\ ~ \E e \in NoProxyEntries :
                    \/ e = <<"*">>
                    \/ pin.hostname = e
                    \/ EndsWith(pin.hostname, <<".">> \o e)
                    \/ StartsWith(e, <<".">>)
                         /\ (EndsWith(pin.hostname, e) \/ <<".">> \o pin.hostname = e))

\* With a proxy set, the request to a.a bypasses it because the list names the
\* parent domain a, without a dot, after an entry that does not match.
C13_Witness ==
    /\ pout # ProxyIdle
    /\ pin.httpsProxy # ""
    /\ pin.hostname = <<"a", ".", "a">>
    /\ pin.noProxy = <<"a", "a", ",", "A">>
    /\ ~pout.useProxy
    /\ pout.dispatcher = [agent |-> "Agent"]

-----------------------------------------------------------------------------
(* The version selection (SpecSelect).                                     *)

StableInHistory ==
    {vin.allVersions[i] : i \in {j \in DOMAIN vin.allVersions :
                                    IsStableVersion(vin.allVersions[j])}}

\* The history drawn, in each of its orders.
Reorderings ==
    {[i \in DOMAIN vin.allVersions |-> vin.allVersions[f[i]]] :
        f \in Permutations(DOMAIN vin.allVersions)}

\* Component i of a version read as decimal numbers between the dots.
NumberAt(v, i) == IF i <= Len(ParseVersion(v)) THEN ParseVersion(v)[i] ELSE 0

\* a is at least b: at the first component where they differ, a is larger.
AtLeast(a, b) ==
    \A i \in 1 .. 4 :
        (\A j \in 1 .. (i - 1) : NumberAt(a, j) = NumberAt(b, j))
            => NumberAt(a, i) >= NumberAt(b, i)

\* C18: when the nominal latest is unstable and the history holds a stable
\* version, the answer is a stable member of the history that no stable member
\* exceeds under compare, in whatever order the index listed the versions.
C18_AnswerIsMaximalStable ==
    (vout # SelectIdle /\ ~IsStableVersion(vin.artifact.latestVersion)
                      /\ StableInHistory # {} /\ ~Lacks(vin.artifact, "timestamp"))
        => /\ vout.latestVersion \in StableInHistory
           /\ \A s \in StableInHistory :
                /\ CompareVersions(vout.latestVersion, s) >= 0
                /\ AtLeast(vout.latestVersion, s)
           /\ \A h \in Reorderings :
                LET other == SelectStable(vin.coord[1], vin.coord[2], vin.artifact, h)
                IN CompareVersions(other.latestVersion, vout.latestVersion) = 0

\* The index listed 2.9.0, then 2.10.1, then 2.10.0, and 2.10.1 was chosen.
C18_Witness ==
    /\ vout # SelectIdle
    /\ vin.artifact.latestVersion = V_3_0_0_RC1
    /\ vin.allVersions = <<V_2_9_0, V_2_10_1, V_2_10_0>>
    /\ ~Lacks(vin.artifact, "timestamp")
    /\ vout.latestVersion = V_2_10_1

-----------------------------------------------------------------------------
(* getLatestVersion (SpecResolve).                                         *)

\* What the claims call an unusable id: not a string, empty, blank, or with a
\* character outside the id pattern.
Unusable(value) ==
    \/ value.typeof # "string"
    \/ value.chars = << >>
    \/ \A k \in DOMAIN value.chars : value.chars[k] = " "
    \/ \E k \in DOMAIN value.chars : value.chars[k] \notin ValidChars

ValidationMessages ==
    { "groupId is required and must be a non-empty string",
      "artifactId is required and must be a non-empty string",
      "groupId contains invalid characters",
      "artifactId contains invalid characters" }

FailedValidation(call) ==
    call.pc = "thrown" /\ call.result.error[1] \in ValidationMessages

\* The key of the coordinate a call was made for.
KeyOfCall(call) == KeyOf(CoordinateOf(call.request))

QueriesOf(call) == {k \in DOMAIN call.trace : call.trace[k].op = "query"}
SetsOf(call) == {k \in DOMAIN call.trace : call.trace[k].op = "cache.set"}

\* C14: a call fails with a validation error exactly when its group or its
\* name is not a string, empty, blank or has a character outside the id
\* pattern, and it then fails before any cache get or set and any query.
C14_ValidationBeforeCacheAndNetwork ==
    \A i \in DOMAIN calls :
        LET call == calls[i]
        IN call.pc # "idle"
             => /\ FailedValidation(call)
                     <=> (Unusable(call.request.groupId)
                            \/ Unusable(call.request.artifactId))
                /\ FailedValidation(call)
                     => (call.trace = << >> /\ call.gots = << >>
                           /\ call.lookup = NoResult)

\* With a record in the cache, a call whose artifactId ends in a space failed
\* validation and touched neither the cache nor the network.
C14_Witness ==
    /\ MapSize(cache) = 1
    /\ calls[1].pc = "thrown"
    /\ calls[1].request.groupId = ValidGroupId
    /\ calls[1].request.artifactId = StringValue(<<"c", " ">>)
    /\ calls[1].result.error = <<"artifactId contains invalid characters">>
    /\ calls[1].trace = << >>

\* C15: when the lookup of a call finds a record that has not expired, the call
\* returns the fields of that record unchanged with cached = true, issues no
\* query and performs no cache set.
C15_HitReturnsRecordUntouched ==
    \A i \in DOMAIN calls :
        LET call == calls[i]
        IN (call.lookup # NoResult /\ call.lookup.unexpired)
             => /\ call.pc = "returned"
                /\ call.result.cached = TRUE
                /\ DOMAIN call.result = DOMAIN call.lookup.found.data \cup {"cached"}
                /\ \A f \in DOMAIN call.lookup.found.data :
                     call.result[f] = call.lookup.found.data[f]
                /\ call.trace = <<CacheGetEvent>>
                /\ call.gots = << >>
                /\ MapGet(cache, KeyOfCall(call)) \in {call.lookup.found, NoEntry}

\* Some time after it was stored, a record with excludedVersions was served from
\* the cache.
C15_Witness ==
    /\ calls[1].pc = "returned"
    /\ calls[1].result.cached = TRUE
    /\ "excludedVersions" \in DOMAIN calls[1].result
    /\ calls[1].result.latestVersion = V_2_10_1
    /\ now > calls[1].lookup.found.timestamp
    /\ MapGet(cache, KeyOfCall(calls[1])) = calls[1].lookup.found
    /\ calls[1].gots = << >>

\* C16: on a miss where the nominal latestVersion of the primary document is
\* stable, the call issues exactly one query, the primary with rows = 1, and
\* returns the nominal version with cached = false in a record that carries
\* neither excludedVersions nor totalVersions.
C16_StableNominalIsTheAnswer ==
    \A i \in DOMAIN calls :
        LET call == calls[i]
        IN (call.artifact # NoArtifact /\ ~Lacks(call.artifact, "latestVersion")
                /\ call.artifact.latestVersion # << >>
                /\ IsStableVersion(call.artifact.latestVersion)
                /\ ~Lacks(call.artifact, "timestamp"))
             => /\ call.pc = "returned"
                /\ Cardinality(QueriesOf(call)) = 1
                /\ call.trace[2] = [op |-> "query", url |-> BaseUrl,
                                    q |-> <<"g:", call.request.groupId.chars,
                                            "AND a:", call.request.artifactId.chars>>,
                                    rows |-> 1, wt |-> "json"]
                /\ Len(call.gots) = 1
                /\ call.result.latestVersion = call.artifact.latestVersion
                /\ call.result.cached = FALSE
                /\ DOMAIN call.result =
                     {"latestVersion", "lastUpdated", "repository", "cached"}

\* The primary query succeeded at its third attempt with 2.10.1, which was
\* returned as it is.
C16_Witness ==
    /\ calls[1].pc = "returned"
    /\ calls[1].gots = <<[status |-> "returned", attempts |-> 3, sleeps |-> 2]>>
    /\ calls[1].result.latestVersion = V_2_10_1
    /\ calls[1].result.cached = FALSE
    /\ Len(calls[1].trace) = 3

\* The body of the primary response has no response or docs field, or no
\* document, or a first document without a usable latestVersion.
NothingFound(body) ==
    \/ Lacks(body, "response")
    \/ Lacks(body.response, "docs")
    \/ Len(body.response.docs) = 0
    \/ Lacks(body.response.docs[1], "latestVersion")
    \/ body.response.docs[1].latestVersion = << >>

\* C17: on a miss, when the primary response has no response or docs field or
\* no document, or its first document lacks a usable latestVersion, the call
\* fails with a not-found error, issues no history query and writes nothing to
\* the cache.
C17_NotFoundStopsTheCall ==
    \A i \in DOMAIN calls :
        LET call == calls[i]
        IN (call.body # NoResult /\ call.body # JsonNull /\ NothingFound(call.body))
             => /\ call.pc = "thrown"
                /\ call.result.error[1] \in {"No artifacts found for",
                                              "No version information available for"}
                /\ Cardinality(QueriesOf(call)) = 1
                /\ Len(call.gots) = 1
                /\ SetsOf(call) = {}
                /\ KeyOfCall(call) \notin DOMAIN cache

\* The first document had no latestVersion: the call failed after one query,
\* and the expired entry that its lookup deleted was not replaced.
C17_Witness ==
    /\ calls[1].pc = "thrown"
    /\ Len(calls[1].gots) = 1
    /\ calls[1].body = [response |-> [docs |-> <<DocWithoutVersion>>]]
    /\ calls[1].result.error =
         <<"No version information available for", <<"a", ".", "b">>, ":", <<"c">> >>
    /\ calls[1].lookup.found # NoEntry
    /\ MapSize(cache) = 0

\* C19: when the nominal latest is unstable and the history yields no stable
\* version, all its entries being pre-releases or the list being empty, the call
\* fails with an error that names the coordinate and the excluded nominal
\* version, and nothing is written to the cache.
C19_NoStableVersionFails ==
    \A i \in DOMAIN calls :
        LET call == calls[i]
        IN (Len(call.gots) = 2
                /\ \A k \in DOMAIN call.allVersions :
                      ~IsStableVersion(call.allVersions[k]))
             => /\ call.pc = "thrown"
                /\ ~IsStableVersion(call.artifact.latestVersion)
                /\ call.result.error =
                     <<"No stable versions found for", call.request.groupId.chars, ":",
                       call.request.artifactId.chars, "(latest version",
                       call.artifact.latestVersion, "is pre-release)">>
                /\ SetsOf(call) = {}
                /\ KeyOfCall(call) \notin DOMAIN cache

\* The history listed an RC and a beta only, and the call failed naming 3.0-M2.
C19_Witness ==
    /\ calls[1].pc = "thrown"
    /\ Len(calls[1].gots) = 2
    /\ calls[1].artifact.latestVersion = V_3_0_M2
    /\ calls[1].allVersions = <<V_3_0_0_RC1, V_2_11_beta>>
    /\ calls[1].result.error[6] = V_3_0_M2
    /\ MapSize(cache) = 0

\* C20: a history query whose every attempt fails does not fail the resolution:
\* a call whose primary query succeeded does not end in an error because the
\* history query failed.
C20_HistoryFailureDoesNotFailTheCall ==
    \A i \in DOMAIN calls :
        LET call == calls[i]
        IN (Len(call.gots) = 2 /\ call.gots[1].status = "returned"
                /\ call.gots[2].status = "thrown")
             => call.pc = "returned"

-----------------------------------------------------------------------------
(* C21: whenever a returned record carries excludedVersions, the sequence  *)
(* has no duplicates and at most 10 elements, starts with the nominal      *)
(* latest version, continues with the unstable versions of the history in  *)
(* the order of their first appearance there (all of them unless the cap   *)
(* of 10 cut the list), and holds only versions that are not stable.       *)

Carries(record, field) == field \in DOMAIN record
FirstAt(list, x) ==
    CHOOSE i \in DOMAIN list : list[i] = x /\ \A j \in 1 .. (i - 1) : list[j] # x
UnstableInHistory ==
    {vin.allVersions[i] : i \in {j \in DOMAIN vin.allVersions :
                                    ~IsStableVersion(vin.allVersions[j])}}

C21_ExcludedVersionsShape ==
    (vout # SelectIdle /\ Carries(vout, "excludedVersions")) =>
        LET ex == vout.excludedVersions
            listed == {ex[i] : i \in DOMAIN ex}
            rest == 2 .. Len(ex)
        IN /\ \A i, j \in DOMAIN ex : i # j => ex[i] # ex[j]
           /\ Len(ex) <= 10
           /\ Len(ex) >= 1
           /\ ex[1] = vin.artifact.latestVersion
           /\ \A i \in DOMAIN ex : ~IsStableVersion(ex[i])
           /\ \A i \in rest : ex[i] \in UnstableInHistory
           /\ \A i, j \in rest :
                i < j => FirstAt(vin.allVersions, ex[i])
                            < FirstAt(vin.allVersions, ex[j])
           /\ \A v \in UnstableInHistory \ listed :
                /\ Len(ex) = 10
                /\ \A i \in rest : FirstAt(vin.allVersions, ex[i])
                                      < FirstAt(vin.allVersions, v)

\* A history with more than ten distinct release candidates, some repeated:
\* the list returned is cut at ten.
C21_Witness ==
    /\ vout # SelectIdle
    /\ Carries(vout, "excludedVersions")
    /\ Len(vout.excludedVersions) = 10
    /\ Cardinality(UnstableInHistory) > 10
    /\ Len(vin.allVersions) > Cardinality(UnstableInHistory) + 1

-----------------------------------------------------------------------------
(* C22: whenever a returned record carries excludedVersions, its           *)
(* totalVersions equals the number of versions in its excludedVersions     *)
(* sequence plus 1.                                                        *)

C22_Original ==
    (vout # SelectIdle /\ Carries(vout, "excludedVersions")) =>
        vout.totalVersions = Len(vout.excludedVersions) + 1

(* C22 as the code has it: totalVersions is 1 plus the number of entries   *)
(* collected before duplicates are removed and the list is cut, that is    *)
(* 2 plus the number of unstable entries of the history; it is never less  *)
(* than the length of excludedVersions plus 1.                             *)
C22_TotalCountsCollectedEntries ==
    (vout # SelectIdle /\ Carries(vout, "excludedVersions")) =>
        /\ vout.totalVersions =
             2 + Cardinality({i \in DOMAIN vin.allVersions :
                                ~IsStableVersion(vin.allVersions[i])})
        /\ vout.totalVersions >= Len(vout.excludedVersions) + 1

\* The nominal version is listed again in the history: the count exceeds the
\* length of the list by more than one.
C22_Witness ==
    /\ vout # SelectIdle
    /\ Carries(vout, "excludedVersions")
    /\ \E i \in DOMAIN vin.allVersions :
          vin.allVersions[i] = vin.artifact.latestVersion
    /\ vout.totalVersions > Len(vout.excludedVersions) + 1

-----------------------------------------------------------------------------
(* compareVersions (SpecCompare).                                          *)

Compared == vout # SelectIdle
Sign(n) == IF n > 0 THEN 1 ELSE IF n < 0 THEN -1 ELSE 0

\* The segments at which two versions differ, a missing segment read as 0.
DifferAt(a, b) ==
    {i \in 1 .. (Len(a) + Len(b) + 1) : NumberAt(a, i) # NumberAt(b, i)}
FirstDiffer(a, b) == CHOOSE i \in DifferAt(a, b) : \A j \in DifferAt(a, b) : i <= j

(* C24: for all version strings a and b, compare(a, b) returns a value in  *)
(* the set {-1, 0, 1}.                                                     *)
C24_Original == Compared => vout.ab \in {-1, 0, 1}

(* C24 as the code has it: compare(a, b) returns an integer that is 0 when *)
(* every pair of segments is equal and otherwise the difference, not       *)
(* clamped, of the first pair of segments that differ.                     *)
C24_ReturnsSegmentDifference ==
    Compared =>
        /\ vout.ab \in Int
        /\ DifferAt(vin.a, vin.b) = {} => vout.ab = 0
        /\ DifferAt(vin.a, vin.b) # {} =>
             vout.ab = NumberAt(vin.a, FirstDiffer(vin.a, vin.b))
                         - NumberAt(vin.b, FirstDiffer(vin.a, vin.b))

\* Two versions whose first differing segments are more than one apart.
C24_Witness ==
    /\ Compared
    /\ vin.a = V_2_10_1
    /\ vin.b = <<"1", "9">>
    /\ vout.ab = -17
    /\ vout.ba = 17

(* C25: compare orders versions numerically segment by segment, a missing  *)
(* trailing segment read as 0: its sign is the sign of the first pair of   *)
(* integer segments that differ (0 when none does), so 2.10.1 is above     *)
(* 2.9.0 and above 2.10.0 and 1.8 equals 1.8.0, and the sign of            *)
(* compare(a, b) is the negation of the sign of compare(b, a).             *)
C25_OrdersBySegments ==
    /\ CompareVersions(V_2_10_1, V_2_9_0) > 0
    /\ CompareVersions(V_2_10_1, V_2_10_0) > 0
    /\ CompareVersions(V_1_8, V_1_8_0) = 0
    /\ Compared =>
        /\ DifferAt(vin.a, vin.b) = {} => Sign(vout.ab) = 0
        /\ DifferAt(vin.a, vin.b) # {} =>
             Sign(vout.ab) = Sign(NumberAt(vin.a, FirstDiffer(vin.a, vin.b))
                                    - NumberAt(vin.b, FirstDiffer(vin.a, vin.b)))
        /\ Sign(vout.ab) = 0 - Sign(vout.ba)

\* 1 against 1.9: the missing second segment is read as 0.
C25_Witness ==
    /\ Compared
    /\ vin.a = <<"1">>
    /\ vin.b = <<"1", ".", "9">>
    /\ vout.ab < 0
    /\ vout.ba > 0

-----------------------------------------------------------------------------
(* isStableVersion (SpecIsStable).                                         *)

Tokens ==
    { <<"p", "r", "e", "v", "i", "e", "w">>, <<"r", "c">>,
      <<"a", "l", "p", "h", "a">>, <<"b", "e", "t", "a">>,
      <<"s", "n", "a", "p", "s", "h", "o", "t">> }

\* Character k of v is letter ch, in either case.
IsLetterAt(v, k, ch) ==
    /\ k \in DOMAIN v
    /\ \/ v[k] = ch
       \/ v[k] \in DOMAIN LowerCase /\ LowerCase[v[k]] = ch

HasTokenAt(v, i, token) == \A k \in DOMAIN token : IsLetterAt(v, i + k - 1, token[k])

HasPreReleaseMark(v) ==
    \E i \in DOMAIN v :
        \/ \E token \in Tokens : HasTokenAt(v, i, token)
        \/ IsLetterAt(v, i, "m") /\ (i + 1) \in DOMAIN v /\ v[i + 1] \in Digits

(* C26: isStable(v) is false exactly when v contains, in either case and   *)
(* anywhere in the string, one of the tokens preview, rc, alpha, beta,     *)
(* snapshot, or the letter m followed by at least one digit, and true      *)
(* otherwise (6.2.8 stable; 7.0.0-M1, 2.0.0-RC1, 1.6.0-SNAPSHOT unstable); *)
(* applied again to the same string it gives the same answer.              *)
C26_UnstableIffPreReleaseMark ==
    /\ IsStableVersion(V_6_2_8)
    /\ ~IsStableVersion(V_7_0_0_M1)
    /\ ~IsStableVersion(V_2_0_0_RC1)
    /\ ~IsStableVersion(V_1_6_0_SNAPSHOT)
    /\ vout # SelectIdle =>
        /\ vout.stable = ~HasPreReleaseMark(vin.version)
        /\ vout.again = vout.stable

\* The token rc in mixed case, put together from two pieces, after a digit.
C26_Witness ==
    /\ vout # SelectIdle
    /\ vin.version = <<"6", "r", "C">>
    /\ ~vout.stable

-----------------------------------------------------------------------------
(* getLatestVersion, one call after another (SpecResolve).                 *)

AnswerFields ==
    {"latestVersion", "lastUpdated", "repository", "excludedVersions",
     "totalVersions"}

\* The answer carries the fields of the record, with the same values, and no
\* other field of an answer.
SameAnswer(record, answer) ==
    \A f \in AnswerFields :
        /\ Carries(answer, f) <=> Carries(record, f)
        /\ Carries(answer, f) => answer[f] = record[f]

(* C23: a resolve that misses and succeeds returns its record with cached  *)
(* = false and stores it under the coordinate; a later resolve of the      *)
(* coordinate made before the TTL has elapsed since then returns the same  *)
(* latestVersion, lastUpdated, repository, excludedVersions and            *)
(* totalVersions with cached = true and sends no query.                    *)
C23_SecondResolveIsServedFromCache ==
    \A i \in DOMAIN calls :
        LET call == calls[i]
        IN (call.pc # "idle" /\ ValidateRequest(call.request) = "ok") =>
             LET c == CoordinateOf(call.request)
             IN /\ (call.pc = "returned" /\ ~call.result.cached) =>
                     /\ lastSet[c] # NoSet
                     /\ SameAnswer(lastSet[c].data, call.result)
                     /\ now - lastSet[c].at < ttlMs =>
                          /\ MapGet(cache, KeyOf(c)) # NoEntry
                          /\ MapGet(cache, KeyOf(c)).data = lastSet[c].data
                /\ call.lookup.withinTtl =>
                     /\ call.pc = "returned"
                     /\ call.result.cached
                     /\ SameAnswer(lastSet[c].data, call.result)
                     /\ QueriesOf(call) = {}
                     /\ call.gots = << >>

\* A record with excluded versions was stored, the clock moved, and the next
\* call was answered from the cache.
C23_Witness ==
    /\ calls[1].pc = "returned"
    /\ calls[1].result.cached
    /\ calls[1].lookup.withinTtl
    /\ calls[1].lookup.found.timestamp < now
    /\ Carries(calls[1].result, "excludedVersions")
    /\ calls[1].result.totalVersions = 4
    /\ calls[1].trace = <<CacheGetEvent>>

\* The kinds of failure, read from the fixed text a message starts with.
TransportTexts ==
    {"Connection timeout for", "Headers timeout for", "Body timeout for",
     "DNS resolution failed for", "Connection refused for", "Connection reset for",
     "HTTP request failed for", "Maven API timeout for",
     "Maven API network error for"}
NotFoundTexts == {"No artifacts found for", "No version information available for"}

KindOf(message) ==
    IF message[1] \in ValidationMessages THEN "validation"
    ELSE IF message[1] \in TransportTexts THEN "transport"
    ELSE IF message[1] \in {"HTTP", "Maven API error:"} THEN "index status"
    ELSE IF message[1] \in NotFoundTexts THEN "not found"
    ELSE IF message[1] = "No stable versions found for" THEN "no stable version"
    ELSE "other"

Taxonomy ==
    {"validation", "transport", "index status", "not found", "no stable version"}

(* C27: every resolve call ends in exactly one outcome, a record or an     *)
(* error of one of the five kinds validation, transport, index status, not *)
(* found, no stable version; no other failure escapes, whether from a      *)
(* document with a latestVersion and no usable timestamp or from a null    *)
(* JSON body.                                                              *)
C27_RecordOrErrorOfTheTaxonomy ==
    \A i \in DOMAIN calls :
        LET call == calls[i]
        IN /\ call.pc = "returned" =>
                /\ ~Carries(call.result, "error")
                /\ Carries(call.result, "latestVersion")
           /\ call.pc = "thrown" =>
                /\ DOMAIN call.result = {"error"}
                /\ KindOf(call.result.error) \in Taxonomy

\* The texts after which a message gives the coordinate as group:name.
CoordinateTexts ==
    NotFoundTexts \cup {"No stable versions found for", "Maven API timeout for",
                        "Maven API network error for"}

NamesCoordinate(call) ==
    LET message == call.result.error
    IN /\ message[1] \in CoordinateTexts
       /\ Len(message) >= 4
       /\ message[2] = call.request.groupId.chars
       /\ message[3] = ":"
       /\ message[4] = call.request.artifactId.chars

(* C29: every failure of resolve of a kind of the taxonomy (validation,    *)
(* transport, index status, not found, no stable version) yields a message *)
(* that names the coordinate, group and name, and the kind of failure.     *)
C29_FailureNamesCoordinateAndKind ==
    \A i \in DOMAIN calls :
        LET call == calls[i]
        IN (call.pc = "thrown" /\ KindOf(call.result.error) \in Taxonomy)
             => NamesCoordinate(call)

-----------------------------------------------------------------------------
(* Interleaved calls of getLatestVersion (SpecRace).                       *)

\* Both calls are for the same coordinate, both missed, and both have returned.
BothMissedAndReturned(i, j) ==
    /\ i # j
    /\ calls[i].pc = "returned" /\ ~calls[i].result.cached
    /\ calls[j].pc = "returned" /\ ~calls[j].result.cached
    /\ CoordinateOf(calls[i].request) = CoordinateOf(calls[j].request)

(* C28: when two resolve calls for the same coordinate both miss, each     *)
(* sends its own queries and each performs a set; once both have returned  *)
(* the cache holds at most one entry, under the coordinate, and while that *)
(* entry has not expired it is there and holds the whole record of the     *)
(* call whose set came last, with the expiry of that set.                  *)
C28_BothQueryAndLastSetStays ==
    \A i, j \in DOMAIN calls :
        BothMissedAndReturned(i, j) =>
            LET c == CoordinateOf(calls[i].request)
                entry == MapGet(cache, KeyOf(c))
                writers == {k \in {i, j} : calls[k].lastWriter}
            IN /\ \A k \in {i, j} :
                    /\ QueriesOf(calls[k]) # {}
                    /\ Cardinality(SetsOf(calls[k])) = 1
                    /\ calls[k].gots # << >>
               /\ Cardinality(writers) = 1
               /\ DOMAIN cache \subseteq {KeyOf(c)}
               /\ now - lastSet[c].at < ttlMs => entry # NoEntry
               /\ entry # NoEntry =>
                    \A k \in writers :
                        /\ SameAnswer(entry.data, calls[k].result)
                        /\ entry.timestamp = lastSet[c].at
                        /\ entry.expiresAt = lastSet[c].at + ttlMs

\* Both calls found the cache empty and no entry has expired since.  Call 2
\* needed the history and returned a record with excluded versions; call 1
\* set its record after it, and the cache holds the record of call 1.
C28_Witness ==
    /\ BothMissedAndReturned(1, 2)
    /\ calls[1].lookup.found = NoEntry
    /\ calls[2].lookup.found = NoEntry
    /\ now < ttlMs
    /\ Carries(calls[2].result, "excludedVersions")
    /\ ~Carries(calls[1].result, "excludedVersions")
    /\ calls[1].lastWriter
    /\ MapSize(cache) = 1
    /\ ~Carries(MapGet(cache, KeyOf(CoordinateOf(calls[1].request))).data,
                "excludedVersions")

-----------------------------------------------------------------------------
(* Start-up (SpecStart).                                                   *)

\* The number an environment variable gives, or the default when it is unset.
Configured(variable, default) ==
    IF vin.env[variable] = Unset THEN default
    ELSE ParseInt(vin.env[variable].value)

(* C30: the cache TTL in effect is the value of CACHE_TTL_MINUTES, in      *)
(* minutes, and the request timeout in effect is the value of              *)
(* MAVEN_API_TIMEOUT, in milliseconds, whenever they are set; 5 minutes    *)
(* and 10000 ms otherwise.                                                 *)
C30_ConfigurationFollowsEnvironment ==
    vout # SelectIdle =>
        /\ vout.ttlMs = Configured("CACHE_TTL_MINUTES", 5) * 60 * 1000
        /\ vout.timeout = Configured("MAVEN_API_TIMEOUT", 10000)

-----------------------------------------------------------------------------
(* C31: an error raised by the request layer for the primary query, and    *)
(* any not-found or no-stable-version error, reaches the caller of resolve *)
(* with the message it was raised with; the resolver does not replace it.  *)

RequestLayerTexts ==
    {"Connection timeout for", "Headers timeout for", "Body timeout for",
     "DNS resolution failed for", "Connection refused for", "Connection reset for",
     "HTTP request failed for", "HTTP"}

-----------------------------------------------------------------------------
(* The cache (Spec): what getStats, the sweep and a hit leave alone.       *)

ExpiredKeys == {k \in DOMAIN cache : now > cache[k].expiresAt}

(* C32: getStats changes nothing: every entry stays, the expired ones that *)
(* no sweep has removed too, and the size reported counts them; an entry   *)
(* leaves the cache only in a get on its key, a sweep, forceCleanup, clear *)
(* or destroy.                                                             *)
C32_StatsChangesNothing ==
    [][/\ last'.op = "stats" =>
            /\ cache' = cache
            /\ last'.size = MapSize(cache)
            /\ UNCHANGED <<now, ttlMs, cleanupInterval, nextSweep, destroyed,
                           lastSet>>
       /\ \A k \in DOMAIN cache \ DOMAIN cache' :
            \/ last'.op \in {"sweep", "forceCleanup", "clear", "destroy"}
            \/ last'.op = "get" /\ KeyOf(last'.coord) = k]_vars

\* Two entries, the older one expired and not yet swept: the size reported is 2.
C32_Witness ==
    /\ last.op = "stats"
    /\ last.size = 2
    /\ MapSize(cache) = 2
    /\ Cardinality(ExpiredKeys) = 1

(* C33: a sweep, periodic or forced, removes exactly the entries with      *)
(* now > expiresAt and leaves every other entry as it was, key, payload    *)
(* and expiry; whatever a get would have returned at that instant it still *)
(* returns after the sweep.                                                *)
C33_SweepRemovesExactlyTheExpired ==
    [][last'.op \in {"sweep", "forceCleanup"} =>
         /\ DOMAIN cache' = DOMAIN cache \ ExpiredKeys
         /\ \A k \in DOMAIN cache' : cache'[k] = cache[k]
         /\ \A c \in Coordinates :
              LET entry == MapGet(cache, KeyOf(c))
              IN (entry # NoEntry /\ ~(now > entry.expiresAt)) =>
                   /\ MapGet(cache', KeyOf(c)) = entry
                   /\ CacheGetValue(cache', c, now) = entry.data]_vars

\* The timer fired at the expiry instant of one entry and after the expiry of
\* the other: the first is still there, the second is gone.
C33_Witness ==
    /\ last.op = "sweep"
    /\ \E k \in DOMAIN cache : cache[k].expiresAt = now
    /\ \E c \in Coordinates :
          /\ lastSet[c] # NoSet
          /\ now > lastSet[c].at + ttlMs
          /\ KeyOf(c) \notin DOMAIN cache

(* C37: a get that hits leaves the entry as it found it: the expiry of an  *)
(* entry stays the time of its set plus the TTL whatever hits it served,   *)
(* and a get later than that is a miss.                                    *)
C37_NoSlidingExpiration ==
    /\ (last.op = "get" /\ last.val # Null) =>
          /\ last.found # NoEntry
          /\ MapGet(cache, KeyOf(last.coord)) = last.found
    /\ \A c \in Coordinates :
          (lastSet[c] # NoSet /\ MapGet(cache, KeyOf(c)) # NoEntry) =>
              /\ MapGet(cache, KeyOf(c)).timestamp = lastSet[c].at
              /\ MapGet(cache, KeyOf(c)).expiresAt = lastSet[c].at + ttlMs
    /\ (last.op = "get" /\ lastSet[last.coord] # NoSet
          /\ now > lastSet[last.coord].at + ttlMs) => last.val = Null

\* A hit on an entry that was set earlier and that a get had already hit.
C37_Witness ==
    /\ last.op = "get"
    /\ last.prev.op = "get"
    /\ last.val # Null
    /\ last.found.timestamp < now
    /\ last.found.expiresAt = lastSet[last.coord].at + ttlMs
    /\ now < last.found.expiresAt

-----------------------------------------------------------------------------
(* Where a call touches the cache (SpecRace, SpecResolve).                 *)

GetsOf(call) == {k \in DOMAIN call.trace : call.trace[k].op = "cache.get"}
Suspended(call) == call.pc \in {"primary", "history"}

\* The events of a call so far: nothing for a call that failed validation;
\* otherwise one get, first; then the queries; then, for a call that returned
\* after a miss, one set, last.
TraceShape(call) ==
    /\ FailedValidation(call) => call.trace = << >>
    /\ (call.pc # "idle" /\ ~FailedValidation(call)) =>
          /\ GetsOf(call) = {1}
          /\ \A k \in QueriesOf(call) : k > 1
          /\ Cardinality(SetsOf(call)) <= 1
          /\ \A k \in SetsOf(call) :
                /\ k = Len(call.trace)
                /\ call.pc = "returned"
                /\ \A q \in QueriesOf(call) : q < k
          /\ Suspended(call) =>
                /\ SetsOf(call) = {}
                /\ call.trace[Len(call.trace)].op = "query"
                /\ Len(call.gots) = Cardinality(QueriesOf(call)) - 1
          /\ ~Suspended(call) => Len(call.gots) = Cardinality(QueriesOf(call))

(* C34: within one resolve call the cache is touched at most twice: one    *)
(* get after validation and before the first query, and one set after the  *)
(* last query has completed; while the call is suspended on the network no *)
(* step of it happens, and the cache changes only by another call or the   *)
(* timer.                                                                  *)
C34_CacheTouchedOutsideNetworkWaits ==
    /\ [](\A i \in RaceCallers : TraceShape(calls[i]))
    /\ [][\A i \in RaceCallers :
            (Suspended(calls[i]) /\ calls'[i].pc = calls[i].pc) =>
                /\ calls'[i].trace = calls[i].trace
                /\ cache' # cache =>
                     \/ nextSweep' # nextSweep
                     \/ \E j \in RaceCallers \ {i} : calls'[j].trace # calls[j].trace
        ]_vars

\* Call 1 waits for the history while call 2 has stored its record.
C34_Witness ==
    /\ calls[1].pc = "history"
    /\ calls[1].trace[1] = CacheGetEvent
    /\ Len(calls[1].trace) = 3
    /\ calls[2].pc = "returned"
    /\ calls[2].trace[Len(calls[2].trace)] = CacheSetEvent
    /\ calls[2].lastWriter
    /\ MapSize(cache) = 1

\* The record a returned answer was made from.
RecordOf(answer) == [f \in DOMAIN answer \ {"cached"} |-> answer[f]]

(* C35: a resolve call that ends in an error never creates or overwrites   *)
(* a cache entry.  Step by step: a step of a call changes the cache only   *)
(* by deleting the expired entry of its own key at its lookup, or by       *)
(* storing its record as it returns it after a miss.                       *)
C35_FailingResolveStoresNothing ==
    [][\A i \in DOMAIN calls :
         /\ calls'[i].pc = "thrown" => SetsOf(calls'[i]) = {}
         /\ (calls'[i] # calls[i] /\ cache' # cache) =>
              LET call == calls'[i]
                  key == KeyOfCall(call)
              IN \/ /\ ~Suspended(calls[i])
                    /\ key \in DOMAIN cache
                    /\ now > cache[key].expiresAt
                    /\ cache' = MapDelete(cache, key)
                 \/ /\ Suspended(calls[i])
                    /\ call.pc = "returned"
                    /\ ~call.result.cached
                    /\ cache' = MapPut(cache, key,
                                       [data |-> RecordOf(call.result),
                                        timestamp |-> now,
                                        expiresAt |-> now + ttlMs])
      ]_vars

\* The lookup of a call deleted the expired entry, the primary query failed
\* after three attempts, and the cache is empty.
C35_Witness ==
    /\ calls[1].pc = "thrown"
    /\ calls[1].lookup # NoResult
    /\ calls[1].lookup.found # NoEntry
    /\ ~calls[1].lookup.unexpired
    /\ calls[1].gots = <<[status |-> "thrown", attempts |-> 3, sleeps |-> 2]>>
    /\ MapSize(cache) = 0

(* C36: in every reachable state every record that resolve has returned    *)
(* and every record in the cache has a latestVersion that is stable: it    *)
(* has none of the pre-release marks.                                      *)
C36_AnswersAreStable ==
    /\ \A i \in DOMAIN calls :
          calls[i].pc = "returned" =>
              /\ IsStableVersion(calls[i].result.latestVersion)
              /\ ~HasPreReleaseMark(calls[i].result.latestVersion)
    /\ \A k \in DOMAIN cache :
          /\ IsStableVersion(cache[k].data.latestVersion)
          /\ ~HasPreReleaseMark(cache[k].data.latestVersion)

\* An answer from the cache, stored by a call whose nominal version was a
\* pre-release.
C36_Witness ==
    /\ calls[1].pc = "returned"
    /\ calls[1].result.cached
    /\ Carries(calls[1].result, "excludedVersions")
    /\ calls[1].result.excludedVersions[1] = V_3_0_M2
    /\ calls[1].result.latestVersion = V_2_10_1

(* C39: when the nominal latest is unstable and a stable version of the    *)
(* history is the answer, lastUpdated is the timestamp of the primary      *)
(* document, not that of a history document.                               *)
C39_LastUpdatedIsOfThePrimaryDocument ==
    \A i \in DOMAIN calls :
        LET call == calls[i]
        IN (call.pc = "returned" /\ Len(call.gots) = 2) =>
             /\ HasPreReleaseMark(call.artifact.latestVersion)
             /\ call.result.latestVersion # call.artifact.latestVersion
             /\ ~Lacks(call.artifact, "timestamp")
             /\ call.result.lastUpdated.date = "1970-01-01"
             /\ call.result.lastUpdated.hh = 0
             /\ 60000 * call.result.lastUpdated.mm
                  + 1000 * call.result.lastUpdated.ss
                  + call.result.lastUpdated.sss = call.artifact.timestamp
             /\ call.artifact.timestamp # HistoryTimestamp

\* 3.0.0-RC1 was nominal, 2.10.1 was chosen from the history, and the answer
\* is dated 00:01:01.001, the timestamp 61001 of the primary document.
C39_Witness ==
    /\ calls[1].pc = "returned"
    /\ Len(calls[1].gots) = 2
    /\ calls[1].artifact.latestVersion = V_3_0_0_RC1
    /\ calls[1].artifact.timestamp = 61001
    /\ calls[1].result.latestVersion = V_2_10_1
    /\ calls[1].result.lastUpdated.mm = 1
    /\ calls[1].result.lastUpdated.ss = 1
    /\ calls[1].result.lastUpdated.sss = 1

-----------------------------------------------------------------------------
(* The cache after destroy() (SpecShutdown).                               *)

\* The step is one of the call i and not an operation on the cache from outside.
StepOf(i) == calls'[i] # calls[i]

(* C38: destroy() stops the timer and nothing else.  Once it has run, the  *)
(* timer stays stopped; a call that was waiting for its response still     *)
(* stores the record it returns, and a set still inserts; and an entry     *)
(* leaves the cache only by a get on its key after its expiry (that of a   *)
(* resolve included), by forceCleanup, by clear or by another destroy.     *)
C38_DestroyDoesNotStopWrites ==
    [][destroyed =>
         /\ destroyed' /\ ~cleanupInterval /\ ~cleanupInterval'
         /\ \A i \in DOMAIN calls :
              (Suspended(calls[i]) /\ calls'[i].pc = "returned") =>
                  /\ KeyOfCall(calls'[i]) \in DOMAIN cache'
                  /\ cache'[KeyOfCall(calls'[i])].data = RecordOf(calls'[i].result)
                  /\ cache'[KeyOfCall(calls'[i])].expiresAt = now + ttlMs
         /\ (calls' = calls /\ last' # last /\ last'.op = "set") =>
                GenerateCacheKey(last'.coord[1], last'.coord[2]) \in DOMAIN cache'
         /\ \A k \in DOMAIN cache \ DOMAIN cache' :
              \/ /\ calls' = calls
                 /\ last'.op = "get"
                 /\ k = GenerateCacheKey(last'.coord[1], last'.coord[2])
                 /\ now > cache[k].expiresAt
              \/ \E i \in DOMAIN calls :
                    /\ StepOf(i)
                    /\ ~Suspended(calls[i])
                    /\ k = KeyOfCall(calls'[i])
                    /\ now > cache[k].expiresAt
              \/ /\ calls' = calls
                 /\ last'.op = "forceCleanup"
                 /\ now > cache[k].expiresAt
              \/ /\ calls' = calls
                 /\ last'.op \in {"clear", "destroy"}
      ]_vars

\* destroy() ran while the call waited for its response; the call stored its
\* record, the record has expired and a sweep has been due since, and stats()
\* reports one entry.
C38_Witness ==
    /\ destroyed
    /\ calls[1].pc = "returned"
    /\ ~calls[1].result.cached
    /\ ~calls[1].lookup.destroyed
    /\ KeyOfCall(calls[1]) \in DOMAIN cache
    /\ cache[KeyOfCall(calls[1])].data = RecordOf(calls[1].result)
    /\ now > cache[KeyOfCall(calls[1])].expiresAt
    /\ now >= nextSweep
    /\ last = [op |-> "stats", size |-> 1]

-----------------------------------------------------------------------------
(* Termination of getLatestVersion (SpecTerminate).                        *)

RECURSIVE SumOver(_, _)
SumOver(gots, field) ==
    IF gots = << >> THEN 0
    ELSE gots[1][field] + SumOver(Tail(gots), field)

\* The requests of a call so far: at most two, each of at most three attempts
\* with a sleep between one attempt and the next, none ending at the exit
\* behind the retry loop.
WithinAttempts(call) ==
    /\ Len(call.gots) <= 2
    /\ \A k \in DOMAIN call.gots :
          /\ call.gots[k].attempts \in 1..3
          /\ call.gots[k].sleeps = call.gots[k].attempts - 1
    /\ SumOver(call.gots, "attempts") <= 6
    /\ SumOver(call.gots, "sleeps") <= 4
    /\ call.raised # [error |-> <<"Unexpected end of retry loop">>]
    /\ call.pc = "thrown" => call.result.error # <<"Unexpected end of retry loop">>

(* C40: every resolve call terminates when each network attempt completes   *)
(* or times out: a call that waits for a response comes to return or to    *)
(* throw, after at most 6 attempts (3 for the primary query, 3 for the     *)
(* history query) and at most 4 sleeps, and never by the exit behind the   *)
(* retry loop.                                                             *)
C40_ResolveTerminates ==
    /\ [](\A i \in Callers : WithinAttempts(calls[i]))
    /\ \A i \in Callers :
          (calls[i].pc \in {"primary", "history"})
              ~> (calls[i].pc \in {"returned", "thrown"})

\* Six attempts and four sleeps: the primary query was answered at the third
\* attempt with a pre-release, the history query failed three times, and the
\* call has ended with an error.
C40_Witness ==
    /\ calls[1].pc = "thrown"
    /\ calls[1].gots = <<[status |-> "returned", attempts |-> 3, sleeps |-> 2],
                         [status |-> "thrown", attempts |-> 3, sleeps |-> 2]>>
    /\ SumOver(calls[1].gots, "attempts") = 6
    /\ SumOver(calls[1].gots, "sleeps") = 4

====
